---- MODULE Spec2Model ----
(***************************************************************************)
(* Lewis voice assistant: the audio capture / segmentation pipeline of     *)
(* src/hardware_interface.py (class AudioInterface) and the configuration  *)
(* it is given by src/main.py (class LewisVoiceAssistant).                 *)
(*                                                                         *)
(* Representation.                                                         *)
(*  - An audio chunk (in_data) is a record [samples, band]: samples is the *)
(*    sequence of int16 samples np.frombuffer reads from the bytes, band   *)
(*    is the mean FFT magnitude of the chunk in the 300-3400 Hz band (the  *)
(*    transform itself is not modelled; band is an input of the chunk).    *)
(*    A chunk of n samples is 2*n bytes long, one more when its odd field  *)
(*    is set (a byte that does not complete a sample trails the samples).  *)
(*    In a buffer of samples such a byte is the element LoneByte.          *)
(*  - Durations are in milliseconds.  silence_counter holds the number of  *)
(*    silent BYTES accumulated; the code holds seconds, i.e. that number   *)
(*    divided by SAMPLE_RATE * 2, and the comparison with silence_duration *)
(*    is done here on the exact rational (cross-multiplied).               *)
(*  - command_audio is a sequence of length <= 1: <<>> when the object has *)
(*    no attribute command_audio, <<buf>> when it has (buf the samples).   *)
(*  - An Optional[str] is a sequence of length <= 1; a str is a sequence   *)
(*    of one-character strings.                                            *)
(*  - The text of a command, and a spoken response, is the sequence of its *)
(*    words, lower-case and without accents; a regular expression of       *)
(*    VoiceCommandProcessor is matched word by word, and `phrase in text`  *)
(*    is the phrase's words occurring in a row.  A dict is a record with   *)
(*    every key the code reads: an absent key holds the default of the     *)
(*    dict.get that reads it, an absent voice_response is <<>>.            *)
(***************************************************************************)
EXTENDS Integers, Sequences, FiniteSets, TLC

VARIABLES
    config,               \* self.config, the dict given to __init__
    audio_buffer,         \* self.audio_buffer, deque(maxlen=10)
    wake_word_detected,   \* self.wake_word_detected
    command_in_progress,  \* self.command_in_progress
    command_audio,        \* self.command_audio (<<>>: no such attribute)
    energy_threshold,     \* self.energy_threshold
    silence_duration,     \* self.silence_duration, in ms
    silence_counter,      \* self.silence_counter, in silent bytes
    callback,             \* self.callback
    callback_calls,       \* the texts self.callback was invoked with, in order
    threads,              \* the recognition threads started, in start order
    delivered,            \* every in_data passed to _audio_callback, in order
    callback_outcome,     \* how the last _audio_callback invocation ended
    probe,                \* one call of _is_silence: its arguments and result
    tts_env,              \* which synthesis backends the host provides
    tts_engine,           \* whether self.tts_engine exists
    tts_calls,            \* the text_to_speech calls, in request order
    speak_threads,        \* the speak() threads started for pyttsx3
    playback,             \* the utterances' start and end events, in order
    stages,               \* the stages the last _audio_callback ran, in order
    audio_env,            \* which capture libraries the host provides
    audio_interface,      \* self.audio_interface
    using_pyaudio,        \* self.using_pyaudio ("unset": no such attribute)
    using_alsa,           \* self.using_alsa ("unset": no such attribute)
    simulator_mode,       \* self.simulator_mode ("unset": no such attribute)
    stream,               \* self.stream and the state of the PortAudio stream
    capture_thread,       \* position of the thread running _continuous_capture
    capture_error,        \* the exception _continuous_capture logged, if any
    is_listening,         \* self.is_listening
    pa_terminated,        \* whether terminate() released the PyAudio instance
    cleanup_outcome,      \* how cleanup() ended, once called
    running,              \* LewisVoiceAssistant.running
    commands,             \* the _process_command_async tasks of main.py
    last_command,         \* assistant_state['last_command']
    context,              \* AICore.context
    response_cache,       \* AICore.response_cache
    actions_run,          \* the actions Utilitarios.execute_action has run
    ai_calls,             \* the calls of AICore.process_command, in order:
                          \* the text, the response returned, and whether
                          \* the cache answered
    stt_env,              \* which recognition libraries the host provides
    vosk_model,           \* self.vosk_model ("unset": no such attribute)
    vosk_recognizer,      \* self.vosk_recognizer ("unset": no such attribute)
    models_created,       \* how many times vosk.Model(...) has built a model
    recognizer_fed        \* the threads whose audio the shared recognizer
                          \* has accepted since it was created or last read

segVars == <<audio_buffer, wake_word_detected, command_in_progress,
             command_audio, silence_counter>>
cfgVars == <<config, energy_threshold, silence_duration>>
recVars == <<callback, callback_calls, threads>>
ttsVars == <<tts_env, tts_engine, tts_calls, speak_threads, playback>>
hwVars == <<audio_env, audio_interface, using_pyaudio, using_alsa,
            simulator_mode, capture_thread, capture_error, is_listening,
            pa_terminated, cleanup_outcome, running>>
asstVars == <<commands, last_command, context, response_cache, actions_run,
               ai_calls>>
sttVars == <<stt_env, vosk_model, vosk_recognizer, models_created,
             recognizer_fed>>
vars == <<segVars, cfgVars, recVars, delivered, callback_outcome, probe,
          ttsVars, stages, hwVars, stream, asstVars, sttVars>>

-----------------------------------------------------------------------------
(* Program constants *)

DefaultSampleRate == 16000
DefaultChunkSize == 1024
RingCapacity == 10
EnergyThreshold == 500
SilenceDurationMs == 1000
SilenceThreshold == 200
VoiceBandThreshold == 1000
Int16Min == -32768
CacheCapacity == 100
ContextCapacity == 10

(* Bounds of the model *)

\* audio_sample_rate of the configurations explored (samples per second)
SampleRate == 4
\* chunks delivered to the capture callback in one behaviour
MaxChunks == 8
\* chunks delivered in one behaviour of the ring buffer's specification
MaxRingChunks == 12
\* samples in a chunk given to _is_silence or to the wake-word gate on its own
MaxVadLen == 3
\* text_to_speech requests in one behaviour
MaxRequests == 2
\* chunks a stream delivers in one behaviour of the backends' specification
MaxBackendChunks == 3
\* commands injected in one behaviour of the assistant's specification
MaxCommands == 1
\* chunks delivered in one behaviour of the short chunks' specification
MaxShortChunks == 4
\* chunks delivered in one behaviour of the configurations' specification
MaxConfigChunks == 5
\* chunks delivered in one behaviour of the recognition threads' specification
MaxSttChunks == 6
\* chunks of the stream that keeps delivering
MaxLiveChunks == 7
\* chunks in a buffer given to _process_complete_command on its own
MaxEmitChunks == 3
\* calls of AICore.process_command made in one behaviour of AICore's
\* specification, after those it starts with
MaxAICalls == 3

-----------------------------------------------------------------------------
(* Configuration *)

\* dict.get(key, default)
CfgGet(cfg, key, default) == IF key \in DOMAIN cfg THEN cfg[key] ELSE default

\* The dict LewisVoiceAssistant builds, with the sample rate and chunk size
\* scaled down so that a chunk lasts half a second (silence_duration in ms).
LewisConfig ==
    [wake_word |-> "lewis",
     audio_sample_rate |-> SampleRate,
     audio_chunk_size |-> 2,
     vad_threshold |-> 300,
     silence_duration |-> 1500,
     max_response_time |-> 10,
     voice_gender |-> "male",
     voice_speed |-> 150]

\* A dict that sets the stream format only: every tunable is absent.
BareConfig ==
    [audio_sample_rate |-> SampleRate,
     audio_chunk_size |-> 2]

Configs == {LewisConfig, BareConfig}

\* dicts no stream can be opened with: a zero sample rate, a zero chunk size
ZeroRateConfig == [audio_sample_rate |-> 0, audio_chunk_size |-> 2]
ZeroChunkConfig == [audio_sample_rate |-> SampleRate, audio_chunk_size |-> 0]

\* how __init__(cfg) ends: it reads cfg with dict.get and assigns
\* attributes, and has no statement that examines a value
init_raises(cfg) == "none"

SAMPLE_RATE == CfgGet(config, "audio_sample_rate", DefaultSampleRate)
CHUNK_SIZE == CfgGet(config, "audio_chunk_size", DefaultChunkSize)

-----------------------------------------------------------------------------
(* Chunks and their energy *)

\* np.abs on an int16 array stays int16: the absolute value of -32768 wraps.
Abs16(x) == IF x = Int16Min THEN Int16Min ELSE IF x < 0 THEN -x ELSE x

RECURSIVE SumAbs16(_)
SumAbs16(s) == IF s = <<>> THEN 0 ELSE Abs16(Head(s)) + SumAbs16(Tail(s))

\* np.mean(np.abs(audio_array)) < t.  The mean of an empty array is nan, and
\* nan < t is False; otherwise sum/n < t iff sum < t*n (n > 0).
EnergyBelow(samples, t) ==
    /\ Len(samples) > 0
    /\ SumAbs16(samples) < t * Len(samples)

\* len(in_data): two bytes per int16 sample, and the trailing byte if any
ByteLen(in_data) == 2 * Len(in_data.samples) + (IF in_data.odd THEN 1 ELSE 0)

\* a byte of a buffer that belongs to no sample (no int16 has this value)
LoneByte == 65536

\* the bytes of in_data as bytearray.extend(in_data) appends them
Payload(in_data) ==
    in_data.samples \o (IF in_data.odd THEN <<LoneByte>> ELSE <<>>)

RECURSIVE Flatten(_)
\* the bytes (samples) of a sequence of chunks, concatenated
Flatten(chunks) ==
    IF chunks = <<>> THEN <<>>
    ELSE Head(chunks).samples \o Flatten(Tail(chunks))

is_silence(audio_data, threshold) == EnergyBelow(audio_data.samples, threshold)

\* _analyze_for_wake_word: TRUE iff it sets self.wake_word_detected
analyze_for_wake_word(audio_data, threshold) ==
    /\ ~EnergyBelow(audio_data.samples, threshold)
    /\ audio_data.band > VoiceBandThreshold

\* How _analyze_for_wake_word ends when it does not return: np.frombuffer
\* refuses a byte count that is not a multiple of 2; past the energy test
\* (which nan, the mean of no sample, passes) np.fft.rfft refuses an empty
\* array, and 1/self.SAMPLE_RATE divides by a zero rate.  "none": it returns.
analyze_for_wake_word_raises(audio_data, threshold) ==
    IF audio_data.odd THEN "ValueError"
    ELSE IF EnergyBelow(audio_data.samples, threshold) THEN "none"
    ELSE IF Len(audio_data.samples) = 0 THEN "ValueError"
    ELSE IF SAMPLE_RATE = 0 THEN "ZeroDivisionError"
    ELSE "none"

\* How _is_silence ends when it does not return (np.frombuffer as above)
is_silence_raises(audio_data) == IF audio_data.odd THEN "ValueError" ELSE "none"

\* The chunks the microphone delivers: a quiet one, a voiced one that is not
\* taken for the wake word (energy exactly at the silence threshold), and a
\* loud one in the voice band (energy exactly at the wake energy threshold).
QuietChunk == [samples |-> <<0, 0>>, band |-> 0, odd |-> FALSE]
SpeechChunk == [samples |-> <<200, -200>>, band |-> 0, odd |-> FALSE]
WakeChunk == [samples |-> <<500, -500>>, band |-> 1001, odd |-> FALSE]
Chunks == {QuietChunk, SpeechChunk, WakeChunk}

\* Reads shorter than the nominal chunk of 2 samples: one sample, one sample
\* and a byte, a single byte, nothing at all
HalfChunk == [samples |-> <<0>>, band |-> 0, odd |-> FALSE]
OddChunk == [samples |-> <<0>>, band |-> 0, odd |-> TRUE]
ByteChunk == [samples |-> <<>>, band |-> 0, odd |-> TRUE]
EmptyChunk == [samples |-> <<>>, band |-> 0, odd |-> FALSE]
ShortChunks == {HalfChunk, OddChunk, ByteChunk, EmptyChunk}

-----------------------------------------------------------------------------
(* Ring buffer *)

\* RingAppend refusing the new element when the buffer is full
RingAppendKeepOldest(buf, x) ==
    IF Len(buf) >= RingCapacity THEN buf ELSE Append(buf, x)

\* deque(maxlen=RingCapacity).append: the oldest element falls out when full
RingAppend(buf, x) ==
    IF Len(buf) >= RingCapacity THEN Append(Tail(buf), x) ELSE Append(buf, x)

-----------------------------------------------------------------------------
(* Segmenter: _audio_callback and _process_complete_command.  The stages    *)
(* work on a record seg of the segmenter's fields; started collects the     *)
(* byte strings handed to a new recognition thread during the callback,     *)
(* stages the statements run ("gate": the call of _analyze_for_wake_word,   *)
(* "arm", "append", "vad": the call of _is_silence, "accumulate", "reset",  *)
(* "complete"), raised the exception that ended the callback early.         *)

Segmenter ==
    [wake_word_detected |-> wake_word_detected,
     command_in_progress |-> command_in_progress,
     command_audio |-> command_audio,
     silence_counter |-> silence_counter,
     started |-> <<>>,
     stages |-> <<>>,
     raised |-> "none"]

\* EndOfCommand with the comparison made strict
EndOfCommandStrict(counter) ==
    counter * 1000 > silence_duration * SAMPLE_RATE * 2

\* self.silence_counter >= self.silence_duration, the counter being
\* silent bytes / (SAMPLE_RATE * 2) seconds and the duration in ms
EndOfCommand(counter) == counter * 1000 >= silence_duration * SAMPLE_RATE * 2

\* Dispatches with the emptiness test replaced by a voice-energy test on
\* the whole buffer
DispatchesIfVoiced(seg) ==
    /\ Len(seg.command_audio) = 1
    /\ Len(seg.command_audio[1]) > 0
    /\ ~EnergyBelow(seg.command_audio[1], SilenceThreshold)

\* Dispatches without the test of the buffer's length
DispatchesIfPresent(seg) == Len(seg.command_audio) = 1

\* the test that guards the start of a recognition thread
Dispatches(seg) ==
    /\ Len(seg.command_audio) = 1
    /\ Len(seg.command_audio[1]) > 0

\* process_complete_command without the reset of the silence counter
process_complete_command_no_reset(seg) ==
    [seg EXCEPT
        !.started = IF Dispatches(seg) THEN Append(@, seg.command_audio[1]) ELSE @,
        !.command_in_progress = FALSE,
        !.command_audio = <<>>,
        !.stages = Append(@, "complete")]

\* process_complete_command without the `del self.command_audio`
process_complete_command_keeps_buffer(seg) ==
    [seg EXCEPT
        !.started = IF Dispatches(seg) THEN Append(@, seg.command_audio[1]) ELSE @,
        !.command_in_progress = FALSE,
        !.silence_counter = 0,
        !.stages = Append(@, "complete")]

process_complete_command(seg) ==
    [seg EXCEPT
        !.started = IF Dispatches(seg) THEN Append(@, seg.command_audio[1]) ELSE @,
        !.command_in_progress = FALSE,
        !.silence_counter = 0,
        !.command_audio = <<>>,
        !.stages = Append(@, "complete")]

\* WakeStage running the wake-word analysis in every segmenter state
WakeStageAlwaysGated(seg, in_data) ==
    LET fault == analyze_for_wake_word_raises(in_data, energy_threshold)
        detected == IF fault = "none"
                    THEN seg.wake_word_detected
                            \/ analyze_for_wake_word(in_data, energy_threshold)
                    ELSE seg.wake_word_detected
        ran == [seg EXCEPT !.stages = Append(@, "gate"), !.raised = fault]
    IN  IF fault # "none" THEN ran
        ELSE IF detected /\ ~seg.command_in_progress
        THEN [ran EXCEPT !.command_in_progress = TRUE,
                         !.command_audio = << <<>> >>,
                         !.wake_word_detected = FALSE,
                         !.stages = Append(@, "arm")]
        ELSE [ran EXCEPT !.wake_word_detected = detected]

\* WakeStage without its two `not command_in_progress` guards: every chunk
\* is analysed and every detection starts a new buffer
WakeStageRearm(seg, in_data) ==
    IF seg.wake_word_detected
          \/ analyze_for_wake_word(in_data, energy_threshold)
    THEN [seg EXCEPT !.command_in_progress = TRUE,
                     !.command_audio = << <<>> >>,
                     !.wake_word_detected = FALSE]
    ELSE seg

\* WakeStage with its two halves in the other order: a detection is only
\* recorded, and arms the capture when the next chunk arrives
WakeStageDeferred(seg, in_data) ==
    LET armed == IF seg.wake_word_detected /\ ~seg.command_in_progress
                 THEN [seg EXCEPT !.command_in_progress = TRUE,
                                  !.command_audio = << <<>> >>,
                                  !.wake_word_detected = FALSE,
                                  !.stages = Append(@, "arm")]
                 ELSE seg
    IN  IF seg.command_in_progress THEN armed
        ELSE [armed EXCEPT
                 !.stages = Append(@, "gate"),
                 !.wake_word_detected =
                     @ \/ analyze_for_wake_word(in_data, energy_threshold)]

\* WakeStage without the reset of wake_word_detected on arming
WakeStageLatched(seg, in_data) ==
    LET analysed == ~seg.command_in_progress
        detected ==
            IF analysed
            THEN seg.wake_word_detected
                    \/ analyze_for_wake_word(in_data, energy_threshold)
            ELSE seg.wake_word_detected
        ran == [seg EXCEPT
                   !.stages = IF analysed THEN Append(@, "gate") ELSE @,
                   !.wake_word_detected = detected]
    IN  IF detected /\ ~seg.command_in_progress
        THEN [ran EXCEPT !.command_in_progress = TRUE,
                         !.command_audio = << <<>> >>,
                         !.stages = Append(@, "arm")]
        ELSE ran

\* wake-word analysis (only when no command is in progress) and arming
WakeStage(seg, in_data) ==
    LET analysed == ~seg.command_in_progress
        fault == IF analysed
                 THEN analyze_for_wake_word_raises(in_data, energy_threshold)
                 ELSE "none"
        detected ==
            IF analysed /\ fault = "none"
            THEN seg.wake_word_detected
                    \/ analyze_for_wake_word(in_data, energy_threshold)
            ELSE seg.wake_word_detected
        ran == [seg EXCEPT
                   !.stages = IF analysed THEN Append(@, "gate") ELSE @,
                   !.raised = fault]
    IN  IF fault # "none" THEN ran
        ELSE IF detected /\ ~seg.command_in_progress
        THEN [ran EXCEPT !.command_in_progress = TRUE,
                         !.command_audio = << <<>> >>,
                         !.wake_word_detected = FALSE,
                         !.stages = Append(@, "arm")]
        ELSE [ran EXCEPT !.wake_word_detected = detected]

\* CaptureStage appending only the chunks classified as speech
CaptureStageSpeechOnly(seg, in_data) ==
    IF ~seg.command_in_progress THEN seg
    ELSE
        IF is_silence(in_data, SilenceThreshold)
        THEN LET acc == [seg EXCEPT
                            !.silence_counter = @ + ByteLen(in_data)]
             IN  IF EndOfCommand(acc.silence_counter)
                 THEN process_complete_command(acc)
                 ELSE acc
        ELSE [seg EXCEPT
                 !.command_audio = << @[1] \o in_data.samples >>,
                 !.silence_counter = 0]

\* CaptureStage assigning the silent chunk's duration to the accumulator
\* instead of adding it
CaptureStageNoAccumulate(seg, in_data) ==
    IF ~seg.command_in_progress THEN seg
    ELSE
        LET ext == [seg EXCEPT
                       !.command_audio = << @[1] \o Payload(in_data) >>,
                       !.stages = @ \o <<"append", "vad">>]
        IN  IF is_silence(in_data, SilenceThreshold)
            THEN LET acc == [ext EXCEPT
                                !.silence_counter = ByteLen(in_data),
                                !.stages = Append(@, "accumulate")]
                 IN  IF EndOfCommand(acc.silence_counter)
                     THEN process_complete_command(acc)
                     ELSE acc
            ELSE [ext EXCEPT !.silence_counter = 0,
                             !.stages = Append(@, "reset")]

\* capture of the command's audio and end-of-command detection
\* (skipped when the wake-word analysis raised); dividing the chunk's
\* length by SAMPLE_RATE * 2 raises when the rate is zero
CaptureStage(seg, in_data) ==
    IF seg.raised # "none" \/ ~seg.command_in_progress THEN seg
    ELSE
        LET ext == [seg EXCEPT
                       !.command_audio = << @[1] \o Payload(in_data) >>,
                       !.stages = @ \o <<"append", "vad">>]
        IN  IF is_silence_raises(in_data) # "none"
            THEN [ext EXCEPT !.raised = is_silence_raises(in_data)]
            ELSE IF is_silence(in_data, SilenceThreshold)
            THEN IF SAMPLE_RATE = 0
                 THEN [ext EXCEPT !.raised = "ZeroDivisionError"]
                 ELSE LET acc == [ext EXCEPT
                                     !.silence_counter = @ + ByteLen(in_data),
                                     !.stages = Append(@, "accumulate")]
                      IN  IF EndOfCommand(acc.silence_counter)
                          THEN process_complete_command(acc)
                          ELSE acc
            ELSE [ext EXCEPT !.silence_counter = 0,
                             !.stages = Append(@, "reset")]

\* NewThread running the recognition to its end before it returns
NewThreadJoined(audio) ==
    [audio |-> audio, pc |-> "done", text |-> <<>>, error |-> "none",
     source |-> <<>>]

\* a recognition thread, just started on its own copy of the bytes
\* (error: the exception its recognition logged, if any; source: the threads
\* whose audio the text it obtained was recognized from)
NewThread(audio) ==
    [audio |-> audio, pc |-> "stt", text |-> <<>>, error |-> "none",
     source |-> <<>>]

RECURSIVE NewThreads(_)
NewThreads(started) ==
    IF started = <<>> THEN <<>>
    ELSE <<NewThread(Head(started))>> \o NewThreads(Tail(started))

\* _audio_callback(in_data, ...).  Its last statement names pyaudio, which
\* the module never imports at top level: the state update is followed by
\* a NameError instead of the (in_data, paContinue) result, unless an
\* earlier statement raised.  What the exception does to the stream is up to
\* the caller: stream is left to the action that invokes the callback.
audio_callback(in_data) ==
    LET seg == CaptureStage(WakeStage(Segmenter, in_data), in_data)
    IN  /\ audio_buffer' = RingAppend(audio_buffer, in_data)
        /\ wake_word_detected' = seg.wake_word_detected
        /\ command_in_progress' = seg.command_in_progress
        /\ command_audio' = seg.command_audio
        /\ silence_counter' = seg.silence_counter
        /\ threads' = threads \o NewThreads(seg.started)
        /\ delivered' = Append(delivered, in_data)
        /\ callback_outcome' = IF seg.raised # "none" THEN seg.raised
                               ELSE "NameError"
        /\ stages' = seg.stages
        /\ UNCHANGED <<cfgVars, callback, callback_calls, probe, ttsVars,
                       hwVars, asstVars, sttVars>>

\* _process_complete_command() called on the segmenter as it stands
process_complete_command_call ==
    /\ stages = <<>>
    /\ LET seg == process_complete_command(Segmenter)
       IN  /\ command_in_progress' = seg.command_in_progress
           /\ command_audio' = seg.command_audio
           /\ silence_counter' = seg.silence_counter
           /\ threads' = threads \o NewThreads(seg.started)
           /\ stages' = seg.stages
    /\ UNCHANGED <<audio_buffer, wake_word_detected, cfgVars, callback,
                   callback_calls, delivered, callback_outcome, probe,
                   ttsVars, hwVars, stream, asstVars, sttVars>>

-----------------------------------------------------------------------------
(* Recognition dispatch: _process_command_async, set_command_callback *)

\* a host on which no recognition library can be imported
NoStt == [vosk |-> "missing", fallback |-> "missing"]

Oi == <<"o", "i">>
Blank == <<" ">>
PaddedOi == <<" ", "o", "i">>

\* what speech_to_text may return: None, "", " ", "oi", " oi"
SttResults == {<<>>, << <<>> >>, <<Blank>>, <<Oi>>, <<PaddedOi>>}

IsSpace(ch) == ch \in {" ", "\t", "\n"}

RECURSIVE LStrip(_)
LStrip(s) == IF s # <<>> /\ IsSpace(Head(s)) THEN LStrip(Tail(s)) ELSE s

RECURSIVE RStrip(_)
RStrip(s) ==
    IF s # <<>> /\ IsSpace(s[Len(s)]) THEN RStrip(SubSeq(s, 1, Len(s) - 1))
    ELSE s

\* str.strip()
Strip(s) == RStrip(LStrip(s))

\* `text and text.strip()` as a condition, text an Optional[str]
Recognized(text) ==
    /\ Len(text) = 1
    /\ Len(text[1]) > 0
    /\ Len(Strip(text[1])) > 0

\* what _process_command_async does with the recognized text: it logs it;
\* the registered callback is not called
HandlerCalls(calls, cb, text) == calls

\* The thread body: speech_to_text returns text, the text is logged when
\* it is non-blank, the thread ends.
process_command_async(i) ==
    /\ threads[i].pc = "stt"
    /\ \E text \in SttResults :
          /\ threads' = [threads EXCEPT ![i].pc = "done", ![i].text = text]
          /\ callback_calls' = HandlerCalls(callback_calls, callback, text)
    /\ UNCHANGED <<segVars, cfgVars, callback, delivered, callback_outcome,
                   probe, ttsVars,
                   stages, hwVars, stream, asstVars, sttVars>>

set_command_callback(cb) ==
    /\ callback = "None"
    /\ callback' = cb
    /\ UNCHANGED <<segVars, cfgVars, callback_calls, threads, delivered,
                   callback_outcome, probe, ttsVars,
                   stages, hwVars, stream, asstVars, sttVars>>

-----------------------------------------------------------------------------
(* Recognition, statement by statement: speech_to_text as the recognition   *)
(* threads run it side by side.  A thread is at "stt" (started), at         *)
(* "load_model" (it found no vosk_model attribute), "load_recognizer" (it   *)
(* has assigned vosk_model), "accept" (about to call AcceptWaveform),       *)
(* "result" (AcceptWaveform returned True), "fallback" (the Vosk branch did *)
(* not return a text: Whisper, then PocketSphinx) or "done".                *)

\* every host: vosk "missing" (ImportError), "ok", or "no_model" (it imports
\* and vosk.Model raises: _ensure_vosk_model creates the directory and
\* downloads nothing); fallback "missing" (neither whisper nor pocketsphinx
\* imports), "ok" (one of them transcribes the thread's own temporary file)
\* or "broken" (it imports and raises)
SttHosts == [vosk : {"missing", "ok", "no_model"},
             fallback : {"missing", "ok", "broken"}]

\* what a recognizer may return for audio it was fed: None (the text ''),
\* " ", "oi", " oi"
SttTexts == {<<>>, <<Blank>>, <<Oi>>, <<PaddedOi>>}

\* stt_raised letting the exception out of the thread's function
stt_raised_uncaught(t, e) == [t EXCEPT !.pc = "crashed", !.error = e]

\* an exception inside speech_to_text: `except Exception` logs it and the
\* function returns None, which _process_command_async ignores
stt_raised(t, e) == [t EXCEPT !.pc = "done", !.text = <<>>, !.error = e]

\* speech_to_text returns text, recognized from the audio of `source`
stt_returned(t, text, source) ==
    [t EXCEPT !.pc = "done", !.text = text, !.source = source]

\* `import vosk` and the test `not hasattr(self, 'vosk_model')`
stt_import_vosk(i) ==
    /\ threads[i].pc = "stt"
    /\ threads' = [threads EXCEPT ![i].pc =
                      IF stt_env.vosk = "missing" THEN "fallback"
                      ELSE IF vosk_model = "unset" THEN "load_model"
                      ELSE "accept"]
    /\ UNCHANGED <<segVars, cfgVars, callback, callback_calls, delivered,
                   callback_outcome, probe, ttsVars, stages, hwVars, stream,
                   asstVars, sttVars>>

\* self.vosk_model = vosk.Model(model_path)
stt_load_model(i) ==
    /\ threads[i].pc = "load_model"
    /\ IF stt_env.vosk = "no_model"
       THEN /\ threads' = [threads EXCEPT ![i] = stt_raised(@, "Exception")]
            /\ UNCHANGED <<vosk_model, models_created>>
       ELSE /\ threads' = [threads EXCEPT ![i].pc = "load_recognizer"]
            /\ vosk_model' = "set"
            /\ models_created' = models_created + 1
    /\ UNCHANGED <<segVars, cfgVars, callback, callback_calls, delivered,
                   callback_outcome, probe, ttsVars, stages, hwVars, stream,
                   asstVars, stt_env, vosk_recognizer, recognizer_fed>>

\* self.vosk_recognizer = vosk.KaldiRecognizer(...): a new recognizer, which
\* has accepted nothing, takes the place of the shared one
stt_load_recognizer(i) ==
    /\ threads[i].pc = "load_recognizer"
    /\ threads' = [threads EXCEPT ![i].pc = "accept"]
    /\ vosk_recognizer' = "set"
    /\ recognizer_fed' = <<>>
    /\ UNCHANGED <<segVars, cfgVars, callback, callback_calls, delivered,
                   callback_outcome, probe, ttsVars, stages, hwVars, stream,
                   asstVars, stt_env, vosk_model, models_created>>

\* self.vosk_recognizer.AcceptWaveform(audio_data): AttributeError while
\* the attribute is not assigned yet; otherwise the shared recognizer takes
\* the audio and reports whether it has reached the end of an utterance
stt_accept(i) ==
    /\ threads[i].pc = "accept"
    /\ IF vosk_recognizer = "unset"
       THEN /\ threads' = [threads EXCEPT
                              ![i] = stt_raised(@, "AttributeError")]
            /\ recognizer_fed' = recognizer_fed
       ELSE /\ recognizer_fed' = Append(recognizer_fed, i)
            /\ \E endpoint \in BOOLEAN :
                  threads' = [threads EXCEPT ![i].pc =
                                 IF endpoint THEN "result" ELSE "fallback"]
    /\ UNCHANGED <<segVars, cfgVars, callback, callback_calls, delivered,
                   callback_outcome, probe, ttsVars, stages, hwVars, stream,
                   asstVars, stt_env, vosk_model, vosk_recognizer,
                   models_created>>

\* self.vosk_recognizer.Result(): the text of what the shared recognizer
\* has accepted since it was last read (nothing: the text is ''), after
\* which it starts afresh; the thread logs a non-blank text and ends
stt_result(i) ==
    /\ threads[i].pc = "result"
    /\ \E text \in SttTexts :
          /\ recognizer_fed = <<>> => text = <<>>
          /\ threads' = [threads EXCEPT
                            ![i] = stt_returned(@, text, recognizer_fed)]
          /\ callback_calls' = HandlerCalls(callback_calls, callback, text)
    /\ recognizer_fed' = <<>>
    /\ UNCHANGED <<segVars, cfgVars, callback, delivered,
                   callback_outcome, probe, ttsVars, stages, hwVars, stream,
                   asstVars, stt_env, vosk_model, vosk_recognizer,
                   models_created>>

\* Whisper, then PocketSphinx, each on a temporary file of the thread's own
\* audio; with neither installed speech_to_text returns None
stt_fallback(i) ==
    /\ threads[i].pc = "fallback"
    /\ \/ /\ stt_env.fallback = "missing"
          /\ threads' = [threads EXCEPT ![i] = stt_returned(@, <<>>, <<>>)]
          /\ callback_calls' = callback_calls
       \/ /\ stt_env.fallback = "ok"
          /\ \E text \in SttTexts :
                /\ threads' = [threads EXCEPT
                                  ![i] = stt_returned(@, text, <<i>>)]
                /\ callback_calls' =
                      HandlerCalls(callback_calls, callback, text)
       \/ /\ stt_env.fallback = "broken"
          /\ threads' = [threads EXCEPT ![i] = stt_raised(@, "Exception")]
          /\ callback_calls' = callback_calls
    /\ UNCHANGED <<segVars, cfgVars, callback, delivered,
                   callback_outcome, probe, ttsVars, stages, hwVars, stream,
                   asstVars, sttVars>>

-----------------------------------------------------------------------------
(* A call of _is_silence on its own *)

NoProbe == [chunk |-> QuietChunk, threshold |-> SilenceThreshold,
            result |-> "unset"]

\* _is_silence(audio_data, threshold) is called and returns
is_silence_call ==
    /\ probe.result = "unset"
    /\ probe' = [probe EXCEPT
                    !.result = IF is_silence(probe.chunk, probe.threshold)
                               THEN "silence" ELSE "speech"]
    /\ UNCHANGED <<segVars, cfgVars, recVars, delivered, callback_outcome,
                   ttsVars,
                   stages, hwVars, stream, asstVars, sttVars>>

\* _analyze_for_wake_word(audio_data) is called on its own and returns or
\* raises; it sets self.wake_word_detected when it detects
analyze_for_wake_word_call ==
    /\ probe.result = "unset"
    /\ LET fault == analyze_for_wake_word_raises(probe.chunk, probe.threshold)
           detects == analyze_for_wake_word(probe.chunk, probe.threshold)
       IN  /\ probe' = [probe EXCEPT
                           !.result = IF fault # "none" THEN fault
                                      ELSE IF detects THEN "detected"
                                      ELSE "rejected"]
           /\ wake_word_detected' =
                 IF fault = "none" /\ detects THEN TRUE
                 ELSE wake_word_detected
    /\ UNCHANGED <<audio_buffer, command_in_progress, command_audio,
                   silence_counter, cfgVars, recVars, delivered,
                   callback_outcome, ttsVars, stages, hwVars, stream,
                   asstVars, sttVars>>

-----------------------------------------------------------------------------
(* Speech output: text_to_speech *)

\* a host with no synthesis backend at all
NoBackend == [espeak |-> FALSE, pyttsx3 |-> FALSE, festival |-> FALSE]

\* every host: espeak-ng on the PATH or not, pyttsx3 importable or not,
\* festival on the PATH or not
TtsHosts == [espeak : BOOLEAN, pyttsx3 : BOOLEAN, festival : BOOLEAN]

TtsTexts == {"ola"}
TtsVoices == {"pt", "en"}

\* the -v argument given to espeak-ng
VoiceParam(voice) == IF voice = "pt" THEN "pt-br" ELSE "en"

StartEvent(i, backend, voice) ==
    [ev |-> "start", call |-> i, backend |-> backend, voice |-> voice]

EndEvent(i, backend, voice) ==
    [ev |-> "end", call |-> i, backend |-> backend, voice |-> voice]

\* text_to_speech has no await in its body: on the event loop a call runs
\* to its end before the next one starts, so the call that may take a step
\* is the first one that has not returned.
Running(i) ==
    /\ i \in 1..Len(tts_calls)
    /\ tts_calls[i].pc # "returned"
    /\ \A j \in 1..(i - 1) : tts_calls[j].pc = "returned"

\* `await text_to_speech(text, voice)` is requested
tts_request(text, voice) ==
    /\ Len(tts_calls) < MaxRequests
    /\ tts_calls' = Append(tts_calls,
                           [text |-> text, voice |-> voice, pc |-> "pending",
                            logged |-> FALSE])
    /\ UNCHANGED <<segVars, cfgVars, recVars, delivered, callback_outcome,
                   probe, tts_env, tts_engine, speak_threads, playback,
                   stages, hwVars, stream, asstVars, sttVars>>

\* subprocess.Popen(['espeak-ng', ...]): the utterance starts, or
\* FileNotFoundError sends the call on to pyttsx3
tts_espeak(i) ==
    /\ Running(i)
    /\ tts_calls[i].pc = "pending"
    /\ IF tts_env.espeak
       THEN /\ playback' = Append(playback,
                   StartEvent(i, "espeak", VoiceParam(tts_calls[i].voice)))
            /\ tts_calls' = [tts_calls EXCEPT ![i].pc = "espeak_wait"]
       ELSE /\ playback' = playback
            /\ tts_calls' = [tts_calls EXCEPT ![i].pc = "pyttsx3"]
    /\ UNCHANGED <<segVars, cfgVars, recVars, delivered, callback_outcome,
                   probe, tts_env, tts_engine, speak_threads,
                   stages, hwVars, stream, asstVars, sttVars>>

\* process.communicate() returns when espeak-ng has finished; return
tts_espeak_done(i) ==
    /\ Running(i)
    /\ tts_calls[i].pc = "espeak_wait"
    /\ playback' = Append(playback,
            EndEvent(i, "espeak", VoiceParam(tts_calls[i].voice)))
    /\ tts_calls' = [tts_calls EXCEPT ![i].pc = "returned"]
    /\ UNCHANGED <<segVars, cfgVars, recVars, delivered, callback_outcome,
                   probe, tts_env, tts_engine, speak_threads,
                   stages, hwVars, stream, asstVars, sttVars>>

\* import pyttsx3: the engine is created if missing and a speak() thread is
\* started, or ImportError is passed over; either way the call goes on
tts_pyttsx3(i) ==
    /\ Running(i)
    /\ tts_calls[i].pc = "pyttsx3"
    /\ IF tts_env.pyttsx3
       THEN /\ tts_engine' = TRUE
            /\ speak_threads' = Append(speak_threads,
                                       [call |-> i, pc |-> "ready"])
       ELSE UNCHANGED <<tts_engine, speak_threads>>
    /\ tts_calls' = [tts_calls EXCEPT ![i].pc = "festival"]
    /\ UNCHANGED <<segVars, cfgVars, recVars, delivered, callback_outcome,
                   probe, tts_env, playback,
                   stages, hwVars, stream, asstVars, sttVars>>

\* tts_festival without its except clause: a missing festival ends the call
tts_festival_uncaught(i) ==
    /\ Running(i)
    /\ tts_calls[i].pc = "festival"
    /\ IF tts_env.festival
       THEN /\ playback' = Append(playback,
                                  StartEvent(i, "festival", "default"))
            /\ tts_calls' = [tts_calls EXCEPT ![i].pc = "festival_wait"]
       ELSE /\ playback' = playback
            /\ tts_calls' = [tts_calls EXCEPT ![i].pc = "raised"]
    /\ UNCHANGED <<segVars, cfgVars, recVars, delivered, callback_outcome,
                   probe, tts_env, tts_engine, speak_threads,
                   stages, hwVars, stream, asstVars, sttVars>>

\* subprocess.run(['festival', '--tts'], input=...): the utterance starts,
\* or the bare except passes over the failure
tts_festival(i) ==
    /\ Running(i)
    /\ tts_calls[i].pc = "festival"
    /\ IF tts_env.festival
       THEN /\ playback' = Append(playback,
                                  StartEvent(i, "festival", "default"))
            /\ tts_calls' = [tts_calls EXCEPT ![i].pc = "festival_wait"]
       ELSE /\ playback' = playback
            /\ tts_calls' = [tts_calls EXCEPT ![i].pc = "log"]
    /\ UNCHANGED <<segVars, cfgVars, recVars, delivered, callback_outcome,
                   probe, tts_env, tts_engine, speak_threads,
                   stages, hwVars, stream, asstVars, sttVars>>

\* subprocess.run returns when festival has finished
tts_festival_done(i) ==
    /\ Running(i)
    /\ tts_calls[i].pc = "festival_wait"
    /\ playback' = Append(playback, EndEvent(i, "festival", "default"))
    /\ tts_calls' = [tts_calls EXCEPT ![i].pc = "log"]
    /\ UNCHANGED <<segVars, cfgVars, recVars, delivered, callback_outcome,
                   probe, tts_env, tts_engine, speak_threads,
                   stages, hwVars, stream, asstVars, sttVars>>

\* logger.info("Lewis diria: ..."), and the call returns
tts_log(i) ==
    /\ Running(i)
    /\ tts_calls[i].pc = "log"
    /\ tts_calls' = [tts_calls EXCEPT ![i].pc = "returned",
                                      ![i].logged = TRUE]
    /\ UNCHANGED <<segVars, cfgVars, recVars, delivered, callback_outcome,
                   probe, tts_env, tts_engine, speak_threads, playback,
                   stages, hwVars, stream, asstVars, sttVars>>

\* a speak() thread reaches engine.say(text); engine.runAndWait(): its
\* utterance starts.  Nothing orders the threads or keeps them apart.
speak_begin(t) ==
    /\ speak_threads[t].pc = "ready"
    /\ speak_threads' = [speak_threads EXCEPT ![t].pc = "speaking"]
    /\ playback' = Append(playback,
                          StartEvent(speak_threads[t].call, "pyttsx3", "engine"))
    /\ UNCHANGED <<segVars, cfgVars, recVars, delivered, callback_outcome,
                   probe, tts_env, tts_engine, tts_calls,
                   stages, hwVars, stream, asstVars, sttVars>>

\* runAndWait() returns: the utterance is over and the thread ends
speak_end(t) ==
    /\ speak_threads[t].pc = "speaking"
    /\ speak_threads' = [speak_threads EXCEPT ![t].pc = "done"]
    /\ playback' = Append(playback,
                          EndEvent(speak_threads[t].call, "pyttsx3", "engine"))
    /\ UNCHANGED <<segVars, cfgVars, recVars, delivered, callback_outcome,
                   probe, tts_env, tts_engine, tts_calls,
                   stages, hwVars, stream, asstVars, sttVars>>

-----------------------------------------------------------------------------
(* Capture backends: initialize, _continuous_capture, cleanup *)

\* a host on which no capture library can be imported
NoCapture == [pyaudio |-> "missing", sounddevice |-> "missing",
              alsa |-> "missing"]

\* every host: for each library, "ok" (it imports and initializes),
\* "missing" (ImportError) or "broken" (the import succeeds and PyAudio()
\* raises; importing sounddevice raises OSError for want of PortAudio)
AudioHosts == [pyaudio : {"ok", "missing", "broken"},
               sounddevice : {"ok", "missing", "broken"},
               alsa : {"ok", "missing"}]

backends == <<"pyaudio", "sounddevice", "alsa">>

\* the attributes the branch of a backend sets before `break`
Selected(backend) ==
    [audio_interface |-> backend,
     using_pyaudio |-> IF backend = "pyaudio" THEN "True"
                       ELSE IF backend = "sounddevice" THEN "False"
                       ELSE "unset",
     using_alsa |-> IF backend = "alsa" THEN "True" ELSE "unset",
     failed |-> FALSE]

RECURSIVE select_backend(_, _)
\* the loop over backends from position k on: ImportError moves on to the
\* next backend, any other exception leaves the loop and the outer try
select_backend(env, k) ==
    IF k > Len(backends)
    THEN [audio_interface |-> "None", using_pyaudio |-> "unset",
          using_alsa |-> "unset", failed |-> FALSE]
    ELSE IF env[backends[k]] = "missing" THEN select_backend(env, k + 1)
    ELSE IF env[backends[k]] = "broken"
    THEN [audio_interface |-> "None", using_pyaudio |-> "unset",
          using_alsa |-> "unset", failed |-> TRUE]
    ELSE Selected(backends[k])

\* `await initialize()`: it has no await of its own and runs in one step on
\* the event loop.  The capture thread is started unless the probing raised.
initialize ==
    /\ simulator_mode = "unset"
    /\ LET sel == select_backend(audio_env, 1)
       IN  /\ audio_interface' = sel.audio_interface
           /\ using_pyaudio' = sel.using_pyaudio
           /\ using_alsa' = sel.using_alsa
           /\ simulator_mode' = IF sel.failed \/ sel.audio_interface = "None"
                                THEN "True" ELSE "False"
           /\ capture_thread' = IF sel.failed THEN "none" ELSE "started"
    /\ UNCHANGED <<segVars, cfgVars, recVars, delivered, callback_outcome,
                   probe, ttsVars, stages, audio_env, capture_error,
                   is_listening, pa_terminated, cleanup_outcome, running,
                   stream, asstVars, sttVars>>

\* continuous_capture without the test of simulator_mode
continuous_capture_unguarded ==
    /\ capture_thread = "started"
    /\ IF using_pyaudio = "True"
       THEN \E opens \in BOOLEAN :
               IF opens
               THEN /\ stream' = "active"
                    /\ capture_thread' = "streaming"
                    /\ capture_error' = capture_error
               ELSE /\ stream' = stream
                    /\ capture_thread' = "returned"
                    /\ capture_error' = "OSError"
       ELSE /\ capture_thread' = "returned"
            /\ capture_error' = "AttributeError"
            /\ stream' = stream
    /\ UNCHANGED <<segVars, cfgVars, recVars, delivered, callback_outcome,
                   probe, ttsVars, stages, audio_env, audio_interface,
                   using_pyaudio, using_alsa, simulator_mode, is_listening,
                   pa_terminated, cleanup_outcome, running, asstVars,
                   sttVars>>

\* The body of the capture thread up to the polling loop.  In simulator
\* mode it returns.  With PyAudio it opens and starts the stream (the open
\* may fail: no input device); the other two branches call methods the
\* class does not define.  Every exception is logged and the thread ends.
continuous_capture ==
    /\ capture_thread = "started"
    /\ IF simulator_mode = "True"
       THEN /\ capture_thread' = "returned"
            /\ UNCHANGED <<stream, capture_error>>
       ELSE IF using_pyaudio = "True"
       THEN \E opens \in BOOLEAN :
               IF opens
               THEN /\ stream' = "active"
                    /\ capture_thread' = "streaming"
                    /\ capture_error' = capture_error
               ELSE /\ stream' = stream
                    /\ capture_thread' = "returned"
                    /\ capture_error' = "OSError"
       ELSE /\ capture_thread' = "returned"
            /\ capture_error' = "AttributeError"
            /\ stream' = stream
    /\ UNCHANGED <<segVars, cfgVars, recVars, delivered, callback_outcome,
                   probe, ttsVars, stages, audio_env, audio_interface,
                   using_pyaudio, using_alsa, simulator_mode, is_listening,
                   pa_terminated, cleanup_outcome, running, asstVars,
                   sttVars>>

\* `while self.stream.is_active(): sleep` finds the stream no longer active
\* (is_active() of a closed stream raises): the thread ends
capture_poll ==
    /\ capture_thread = "streaming"
    /\ stream # "active"
    /\ capture_thread' = "returned"
    /\ capture_error' = IF stream = "closed" THEN "OSError" ELSE capture_error
    /\ UNCHANGED <<segVars, cfgVars, recVars, delivered, callback_outcome,
                   probe, ttsVars, stages, audio_env, audio_interface,
                   using_pyaudio, using_alsa, simulator_mode, is_listening,
                   pa_terminated, cleanup_outcome, running, stream, asstVars,
                   sttVars>>

\* the device fails and the backend stops the stream
stream_fault ==
    /\ stream = "active"
    /\ stream' = "inactive"
    /\ UNCHANGED <<segVars, cfgVars, recVars, delivered, callback_outcome,
                   probe, ttsVars, stages, hwVars, asstVars, sttVars>>

\* the stream after PortAudio has invoked the callback: the callback never
\* returns paContinue, and what the binding does with a callback that
\* raised (go on, or abort the stream) is the binding's choice
AfterCallback == {"active", "inactive"}

\* cleanup(): stop and close the stream if there is one, then terminate()
\* on whatever audio_interface is whenever using_pyaudio was ever set.  The
\* sounddevice module has no terminate: AttributeError.
cleanup ==
    /\ cleanup_outcome = "none"
    /\ is_listening' = FALSE
    /\ stream' = IF stream # "None" THEN "closed" ELSE stream
    /\ IF using_pyaudio = "unset"
       THEN /\ cleanup_outcome' = "returned"
            /\ pa_terminated' = pa_terminated
       ELSE IF audio_interface = "pyaudio"
       THEN /\ cleanup_outcome' = "returned"
            /\ pa_terminated' = TRUE
       ELSE /\ cleanup_outcome' = "AttributeError"
            /\ pa_terminated' = pa_terminated

\* LewisVoiceAssistant.shutdown(): running is cleared and the hardware
\* module, present once initialize() has run, is cleaned up
shutdown ==
    /\ running
    /\ simulator_mode # "unset"
    /\ running' = FALSE
    /\ cleanup
    /\ UNCHANGED <<segVars, cfgVars, recVars, delivered, callback_outcome,
                   probe, ttsVars, stages, audio_env, audio_interface,
                   using_pyaudio, using_alsa, simulator_mode, capture_thread,
                   capture_error, asstVars, sttVars>>

-----------------------------------------------------------------------------
(* Command processing: VoiceCommandProcessor, AICore, Utilitarios and the   *)
(* tasks of LewisVoiceAssistant                                             *)

\* an element of a pattern: the words it accepts, and whether it is a group
W(w) == [alts |-> {w}, group |-> FALSE]
G(ws) == [alts |-> ws, group |-> TRUE]

\* a pattern: its elements, and whether it ends with (.*)
Pat(elems, rest) == [elems |-> elems, rest |-> rest]

\* _load_command_patterns, in the order of the dict
command_patterns ==
    << [type |-> "saudacao",
        patterns |-> << Pat(<<W("ola")>>, FALSE),
                        Pat(<<W("oi"), G({"lewis", "leuis"})>>, FALSE),
                        Pat(<<W("bom"), W("dia")>>, FALSE),
                        Pat(<<W("boa"), W("tarde")>>, FALSE),
                        Pat(<<W("boa"), W("noite")>>, FALSE) >>],
       [type |-> "pergunta",
        patterns |-> << Pat(<<W("o"), W("que"), W("e")>>, TRUE),
                        Pat(<<W("como"), G({"funciona", "fazer"})>>, TRUE),
                        Pat(<<W("por"), W("que")>>, TRUE) >>],
       [type |-> "controle",
        patterns |-> << Pat(<<G({"liga", "desliga"})>>, TRUE),
                        Pat(<<G({"abre", "fecha"})>>, TRUE),
                        Pat(<<G({"mostra", "esconde"})>>, TRUE) >>],
       [type |-> "informacao",
        patterns |-> << Pat(<<W("que"), W("horas"), W("sao")>>, FALSE),
                        Pat(<<W("que"), W("dia"), W("e"), W("hoje")>>, FALSE),
                        Pat(<<W("qual"), W("a"), W("temperatura")>>, FALSE),
                        Pat(<<W("previsao"), W("do"), W("tempo")>>, FALSE) >>],
       [type |-> "sistema",
        patterns |-> << Pat(<<G({"reinicia", "desliga"}), W("o"),
                              W("sistema")>>, FALSE),
                        Pat(<<W("modo"), G({"silencioso", "noturno"})>>, FALSE),
                        Pat(<<W("volume"), G({"alto", "baixo", "mudo"})>>,
                            FALSE) >>],
       [type |-> "conversa",
        patterns |-> << Pat(<<G({"conta"})>>, TRUE),
                        Pat(<<W("me"), W("diga")>>, TRUE),
                        Pat(<<W("o"), W("que"), W("voce"), W("acha")>>, TRUE),
                        Pat(<<G({"voce", "vc"})>>, TRUE) >>] >>

\* re.match(regex_pattern, text): the pattern matches a prefix of the text,
\* (.+) needing at least one more word
Matches(text, pat) ==
    /\ Len(text) >= Len(pat.elems) + (IF pat.rest THEN 1 ELSE 0)
    /\ \A k \in 1..Len(pat.elems) : text[k] \in pat.elems[k].alts

RECURSIVE GroupsFrom(_, _, _)
\* match.groups(): the words of each group, the rest of the text for (.+)
GroupsFrom(text, pat, k) ==
    IF k > Len(pat.elems)
    THEN IF pat.rest THEN << SubSeq(text, k, Len(text)) >> ELSE <<>>
    ELSE (IF pat.elems[k].group THEN << <<text[k]>> >> ELSE <<>>)
            \o GroupsFrom(text, pat, k + 1)

RECURSIVE identify_command_from(_, _, _)
\* _identify_command from pattern j of command type t on
identify_command_from(text, t, j) ==
    IF t > Len(command_patterns)
    THEN [type |-> "None", matches |-> <<>>]
    ELSE IF j > Len(command_patterns[t].patterns)
    THEN identify_command_from(text, t + 1, 1)
    ELSE IF Matches(text, command_patterns[t].patterns[j])
    THEN [type |-> command_patterns[t].type,
          matches |-> GroupsFrom(text, command_patterns[t].patterns[j], 1)]
    ELSE identify_command_from(text, t, j + 1)

identify_command(text) == identify_command_from(text, 1, 1)

\* `phrase in text`
Contains(text, phrase) ==
    \E k \in 0..(Len(text) - Len(phrase)) :
        \A m \in 1..Len(phrase) : text[k + m] = phrase[m]

\* AICore.load_minimal_models, in the order of the dict
intent_patterns ==
    << [intent |-> "saudacao",
        patterns |-> {<<"ola">>, <<"oi">>, <<"e", "ai">>, <<"bom", "dia">>,
                      <<"boa", "tarde">>}],
       [intent |-> "pergunta",
        patterns |-> {<<"o", "que", "e">>, <<"como", "funciona">>,
                      <<"por", "que">>, <<"quando">>}],
       [intent |-> "acao",
        patterns |-> {<<"ligue">>, <<"desligue">>, <<"abra">>, <<"feche">>,
                      <<"mostre">>}],
       [intent |-> "critica",
        patterns |-> {<<"esta", "errado">>, <<"nao", "concordo">>,
                      <<"discordo">>}],
       [intent |-> "opiniao",
        patterns |-> {<<"o", "que", "voce", "acha">>,
                      <<"qual", "sua", "opiniao">>, <<"voce", "concorda">>}] >>

RECURSIVE analyze_intent_from(_, _)
analyze_intent_from(text, k) ==
    IF k > Len(intent_patterns) THEN "conversa"
    ELSE IF \E ph \in intent_patterns[k].patterns : Contains(text, ph)
    THEN intent_patterns[k].intent
    ELSE analyze_intent_from(text, k + 1)

analyze_intent(text) == analyze_intent_from(text, 1)

negative_words == {"ruim", "mal", "pessimo", "odeio", "horrivel", "errado"}

\* sentiment["negative"] > 0.3, the share being 0.5 for a text of no word
NegativeSentiment(text) ==
    IF Len(text) = 0 THEN TRUE
    ELSE 10 * Cardinality({k \in 1..Len(text) : text[k] \in negative_words})
            > 3 * Len(text)

\* a response dict of AICore, or a result dict of VoiceCommandProcessor
Result(voice_response, action_needed, action_type) ==
    [voice_response |-> voice_response,
     action_needed |-> action_needed,
     needs_action |-> FALSE,
     action_type |-> action_type]

\* add_personality_flavor
add_personality_flavor(text, trait) ==
    IF trait = "critical"
    THEN text \o <<"(Isso e importante para tomarmos a melhor decisao.)">>
    ELSE IF trait = "helpful"
    THEN text \o <<"Estou aqui para ajudar no que precisar.">>
    ELSE text

\* generate_response: the responses it may return (random.choice)
generate_response(text) ==
    LET intent == analyze_intent(text)
        spoken ==
            IF intent = "saudacao"
            THEN {add_personality_flavor(<<g>>, "friendly") :
                    g \in {"Ola! Como posso ajudar?", "Oi! Tudo bem?",
                           "Saudacoes! O que precisa?"}}
            ELSE IF intent = "critica" \/ NegativeSentiment(text)
            THEN {add_personality_flavor(<<c>>, "critical") :
                    c \in {"Entendo seu ponto, mas veja por este angulo...",
                           "Discordo um pouco. Vamos analisar...",
                           "Ha um equivoco nessa afirmacao. Na verdade...",
                           "Respeito sua opiniao, mas os fatos mostram que..."}}
            ELSE IF intent = "pergunta"
            THEN {add_personality_flavor(
                      <<"Excelente pergunta sobre">> \o text
                          \o <<"Vou explicar de forma clara...">>, "helpful")}
            ELSE {add_personality_flavor(<<c>>, "empathetic") :
                    c \in {"Interessante. O que mais gostaria de saber?",
                           "Compreendo. Vamos continuar nossa conversa.",
                           "Percebi seu ponto. O que acha de discutirmos isso?"}}
    IN  {Result(<<v>>, FALSE, "None") : v \in spoken}

\* update_context, had it dropped the newest entry beyond ContextCapacity
update_context_drops_newest(ctx, user_input, response) ==
    LET c == Append(ctx, [user |-> user_input,
                          ai |-> response.voice_response[1]])
    IN  IF Len(c) > ContextCapacity THEN SubSeq(c, 1, ContextCapacity) ELSE c

\* update_context: the entry is appended (its timestamp left out) and the
\* oldest one dropped beyond ContextCapacity
update_context(ctx, user_input, response) ==
    LET c == Append(ctx, [user |-> user_input,
                          ai |-> response.voice_response[1]])
    IN  IF Len(c) > ContextCapacity THEN Tail(c) ELSE c

\* process_command, had it recorded the exchange in the context on a cache
\* hit as well
process_command_hit_in_context(text, cache, ctx) ==
    IF \E e \in cache : e.key = text
    THEN {[result |-> e.response, cache |-> cache,
           context |-> update_context(ctx, text, e.response),
           calls |-> << [text |-> text, response |-> e.response,
                         hit |-> TRUE] >>] :
            e \in {h \in cache : h.key = text}}
    ELSE {[result |-> r,
           cache |-> IF Cardinality(cache) < CacheCapacity
                     THEN cache \cup {[key |-> text, response |-> r]}
                     ELSE cache,
           context |-> update_context(ctx, text, r),
           calls |-> << [text |-> text, response |-> r, hit |-> FALSE] >>] :
            r \in generate_response(text)}

\* AICore.process_command(text) on a cache and a context: the outcomes it
\* may have, each a response with the cache and the context it leaves, and
\* the call as it is recorded.  The cache key is the md5 of the text, taken
\* to be the text itself.
process_command(text, cache, ctx) ==
    IF \E e \in cache : e.key = text
    THEN {[result |-> e.response, cache |-> cache, context |-> ctx,
           calls |-> << [text |-> text, response |-> e.response,
                         hit |-> TRUE] >>] :
            e \in {h \in cache : h.key = text}}
    ELSE {[result |-> r,
           cache |-> IF Cardinality(cache) < CacheCapacity
                     THEN cache \cup {[key |-> text, response |-> r]}
                     ELSE cache,
           context |-> update_context(ctx, text, r),
           calls |-> << [text |-> text, response |-> r, hit |-> FALSE] >>] :
            r \in generate_response(text)}

\* re.sub(r'^(lewis|leuis)\s*', '', text)
StripWakeWord(text) ==
    IF text # <<>> /\ Head(text) \in {"lewis", "leuis"} THEN Tail(text)
    ELSE text

\* _handle_control: control_map.get(action, action)
control_map(action) ==
    CASE action = "liga" -> "ligar"
      [] action = "desliga" -> "desligar"
      [] action = "abre" -> "abrir"
      [] action = "fecha" -> "fechar"
      [] action = "mostra" -> "mostrar"
      [] action = "esconde" -> "esconder"
      [] OTHER -> action

\* the results _handle_information may return (the clock, the calendar and
\* the weather service are the host's)
handle_information(text) ==
    IF Contains(text, <<"horas">>)
    THEN {Result(<< <<"Sao", "HH:MM">> >>, FALSE, "None")}
    ELSE IF Contains(text, <<"dia">>)
    THEN {Result(<< <<"Hoje e", "dd/mm/yyyy">> >>, FALSE, "None")}
    ELSE IF Contains(text, <<"temperatura">>) \/ Contains(text, <<"previsao">>)
    THEN {Result(<< <<"A temperatura e", w>> >>, FALSE, "None") :
            w \in {"N/A", "21"}}
    ELSE {Result(<< <<"Posso informar sobre horario, data ou clima.">> >>,
                 FALSE, "None")}

\* _handle_system
handle_system(text) ==
    IF Contains(text, <<"reinicia">>)
    THEN Result(<< <<"Reiniciando sistema em 3 segundos">> >>, TRUE,
                "system_restart")
    ELSE IF Contains(text, <<"desliga">>) /\ Contains(text, <<"sistema">>)
    THEN Result(<< <<"Desligando sistema em 3 segundos">> >>, TRUE,
                "system_shutdown")
    ELSE IF Contains(text, <<"volume">>)
    THEN IF Contains(text, <<"alto">>)
         THEN Result(<< <<"Aumentando volume">> >>, TRUE, "volume_up")
         ELSE IF Contains(text, <<"baixo">>)
         THEN Result(<< <<"Diminuindo volume">> >>, TRUE, "volume_down")
         ELSE IF Contains(text, <<"mudo">>)
         THEN Result(<< <<"Modo mudo ativado">> >>, TRUE, "volume_mute")
         ELSE Result(<< <<"Controle de volume disponivel">> >>, FALSE, "None")
    ELSE Result(<< <<"Comando do sistema recebido">> >>, FALSE, "None")

Greetings ==
    {"Ola! Como posso ajudar?", "Oi! Em que posso ser util hoje?",
     "Saudacoes! Estou aqui para o que precisar.",
     "Ola! Pronto para assistir voce."}

\* what a handler that does not consult AICore leaves: cache and context
Untouched(results, cache, ctx) ==
    {[result |-> r, cache |-> cache, context |-> ctx, calls |-> <<>>] :
        r \in results}

\* VoiceCommandProcessor.process_voice_command(command_text): its outcomes
process_voice_command(command_text, cache, ctx) ==
    IF Len(command_text) = 0
    THEN Untouched({Result(<<>>, FALSE, "None")}, cache, ctx)
    ELSE
        LET text == StripWakeWord(command_text)
            id == identify_command(text)
        IN  CASE id.type = "saudacao" ->
                    Untouched({Result(<< <<g>> >>, FALSE, "None") :
                                 g \in Greetings}, cache, ctx)
              [] id.type = "pergunta" ->
                    {[o EXCEPT !.result =
                         Result(o.result.voice_response, FALSE, "None")] :
                        o \in process_command(
                                 <<"pergunta:">> \o id.matches[1], cache, ctx)}
              [] id.type = "controle" ->
                    Untouched({Result(
                        << <<"Executando:", control_map(id.matches[1][1])>>
                              \o id.matches[2] >>, TRUE, "control")},
                        cache, ctx)
              [] id.type = "informacao" ->
                    Untouched(handle_information(text), cache, ctx)
              [] id.type = "sistema" ->
                    Untouched({handle_system(text)}, cache, ctx)
              [] OTHER -> process_command(text, cache, ctx)

\* Utilitarios.execute_action(response): the actions it runs, in order.  It
\* looks at needs_action, and at action_type among the names of its tables.
execute_action(response) ==
    IF ~response.needs_action THEN <<>>
    ELSE IF response.action_type \in
              {"shutdown", "restart", "status", "time", "date", "weather",
               "joke", "quote", "fact"}
    THEN <<response.action_type>>
    ELSE <<>>

\* _on_voice_command(command_text): asyncio.create_task(...)
on_voice_command(command_text) ==
    /\ simulator_mode # "unset"
    /\ Len(commands) < MaxCommands
    /\ commands' = Append(commands,
                          [text |-> command_text, pc |-> "created",
                           result |-> Result(<<>>, FALSE, "None"),
                           call |-> 0])
    /\ UNCHANGED <<segVars, cfgVars, recVars, delivered, callback_outcome,
                   probe, ttsVars, stages, hwVars, stream, last_command,
                   context, response_cache, actions_run, ai_calls, sttVars>>

\* LewisVoiceAssistant._process_command_async up to the call of
\* text_to_speech.  The event loop runs the tasks in the order they were
\* created and nothing in this stretch suspends: the command is processed,
\* the action executed if action_needed, and the response handed to
\* text_to_speech with voice 'pt' if there is one.  No statement of it
\* raises on the texts explored.
process_command_async_task(k) ==
    /\ commands[k].pc = "created"
    /\ \A j \in 1..(k - 1) : commands[j].pc = "done"
    /\ \E o \in process_voice_command(commands[k].text, response_cache,
                                      context) :
          /\ response_cache' = o.cache
          /\ context' = o.context
          /\ ai_calls' = ai_calls \o o.calls
          /\ actions_run' = actions_run \o
                (IF o.result.action_needed THEN execute_action(o.result)
                 ELSE <<>>)
          /\ IF o.result.voice_response # <<>>
             THEN /\ tts_calls' = Append(tts_calls,
                        [text |-> o.result.voice_response[1], voice |-> "pt",
                         pc |-> "pending", logged |-> FALSE])
                  /\ commands' = [commands EXCEPT
                                     ![k].pc = "speaking",
                                     ![k].result = o.result,
                                     ![k].call = Len(tts_calls) + 1]
                  /\ last_command' = last_command
             ELSE /\ tts_calls' = tts_calls
                  /\ commands' = [commands EXCEPT ![k].pc = "done",
                                                  ![k].result = o.result]
                  /\ last_command' = <<commands[k].text>>
    /\ UNCHANGED <<segVars, cfgVars, recVars, delivered, callback_outcome,
                   probe, tts_env, tts_engine, speak_threads, playback,
                   stages, hwVars, stream, sttVars>>

\* text_to_speech has returned: assistant_state['last_command'] is set and
\* the task ends
command_done(k) ==
    /\ commands[k].pc = "speaking"
    /\ tts_calls[commands[k].call].pc = "returned"
    /\ commands' = [commands EXCEPT ![k].pc = "done"]
    /\ last_command' = <<commands[k].text>>
    /\ UNCHANGED <<segVars, cfgVars, recVars, delivered, callback_outcome,
                   probe, ttsVars, stages, hwVars, stream, context,
                   response_cache, actions_run, ai_calls, sttVars>>

-----------------------------------------------------------------------------
(* Specification of the capture and recognition pipeline *)

\* the segmenter's fields as __init__ leaves them
ConstructedSegmenter ==
    /\ audio_buffer = <<>>
    /\ wake_word_detected = FALSE
    /\ command_in_progress = FALSE
    /\ command_audio = <<>>
    /\ silence_counter = 0

\* AICore as __init__ leaves it: no context, an empty cache, no call yet
ConstructedAICore ==
    /\ context = <<>>
    /\ response_cache = {}
    /\ ai_calls = <<>>

\* the fields of the other objects as their __init__ leave them
ConstructedOthers ==
    /\ energy_threshold = EnergyThreshold
    /\ silence_duration = SilenceDurationMs
    /\ callback = "None"
    /\ callback_calls = <<>>
    /\ threads = <<>>
    /\ delivered = <<>>
    /\ callback_outcome = "none"
    /\ tts_engine = FALSE
    /\ tts_calls = <<>>
    /\ speak_threads = <<>>
    /\ playback = <<>>
    /\ stages = <<>>
    /\ audio_interface = "None"
    /\ using_pyaudio = "unset"
    /\ using_alsa = "unset"
    /\ simulator_mode = "unset"
    /\ stream = "None"
    /\ capture_thread = "none"
    /\ capture_error = "none"
    /\ is_listening = FALSE
    /\ pa_terminated = FALSE
    /\ cleanup_outcome = "none"
    /\ running = TRUE
    /\ commands = <<>>
    /\ last_command = <<>>
    /\ actions_run = <<>>
    /\ vosk_model = "unset"
    /\ vosk_recognizer = "unset"
    /\ models_created = 0
    /\ recognizer_fed = <<>>

\* every other field as __init__ leaves it
ConstructedRest == ConstructedOthers /\ ConstructedAICore

\* the object as __init__ leaves it
Constructed == ConstructedSegmenter /\ ConstructedRest

Init ==
    /\ config \in Configs
    /\ Constructed
    /\ probe = NoProbe
    /\ tts_env = NoBackend
    /\ stt_env = NoStt
    /\ audio_env = NoCapture

\* the callback invoked on a chunk, whoever drives it
Capture ==
    \E c \in Chunks :
        /\ Len(delivered) < MaxChunks
        /\ audio_callback(c)
        /\ UNCHANGED stream

Recognize == \E i \in 1..Len(threads) : process_command_async(i)

Register == set_command_callback("_on_voice_command")

Next == Capture \/ Recognize \/ Register

Spec == Init /\ [][Next]_vars

-----------------------------------------------------------------------------
(* Specification of a stream that keeps delivering: the backend invokes the *)
(* callback for every chunk it has, so the capture step is taken as long as *)
(* a chunk of the stream remains.                                           *)

CaptureLive ==
    \E c \in Chunks :
        /\ Len(delivered) < MaxLiveChunks
        /\ audio_callback(c)
        /\ UNCHANGED stream

SpecLive == Init /\ [][CaptureLive]_vars /\ WF_vars(CaptureLive)

-----------------------------------------------------------------------------
(* Specification of the ring buffer: a longer stream of two kinds of chunk, *)
(* long enough for the buffer to fill and evict, with the recognition       *)
(* threads and the registration of the handler running alongside.           *)

RingChunks == {QuietChunk, WakeChunk}

CaptureRing ==
    \E c \in RingChunks :
        /\ Len(delivered) < MaxRingChunks
        /\ audio_callback(c)
        /\ UNCHANGED stream

NextRing == CaptureRing \/ Recognize \/ Register

SpecRing == Init /\ [][NextRing]_vars

-----------------------------------------------------------------------------
(* Specification of the capture backends: every host, the capture thread,   *)
(* the stream delivering chunks to the callback, and shutdown.              *)

InitBackend ==
    /\ config = LewisConfig
    /\ Constructed
    /\ probe = NoProbe
    /\ tts_env = NoBackend
    /\ stt_env = NoStt
    /\ audio_env \in AudioHosts

\* PortAudio invokes the stream's callback on a chunk
Deliver ==
    \E c \in Chunks :
        /\ stream = "active"
        /\ Len(delivered) < MaxBackendChunks
        /\ audio_callback(c)
        /\ stream' \in AfterCallback

NextBackend ==
    \/ initialize
    \/ continuous_capture
    \/ capture_poll
    \/ stream_fault
    \/ Deliver
    \/ shutdown

SpecBackend == InitBackend /\ [][NextBackend]_vars

-----------------------------------------------------------------------------
(* Specification of the segmenter on short reads: the callback is given     *)
(* well-formed chunks and reads shorter than the nominal chunk.             *)

CaptureShort ==
    \E c \in {QuietChunk, WakeChunk} \cup ShortChunks :
        /\ Len(delivered) < MaxShortChunks
        /\ audio_callback(c)
        /\ UNCHANGED stream

SpecShort == Init /\ [][CaptureShort]_vars

-----------------------------------------------------------------------------
(* Specification of the segmenter under every configuration __init__        *)
(* accepts, the unusable ones included.                                     *)

InitConfig ==
    /\ config \in {cfg \in Configs \cup {ZeroRateConfig, ZeroChunkConfig} :
                       init_raises(cfg) = "none"}
    /\ Constructed
    /\ probe = NoProbe
    /\ tts_env = NoBackend
    /\ stt_env = NoStt
    /\ audio_env = NoCapture

CaptureConfig ==
    \E c \in Chunks :
        /\ Len(delivered) < MaxConfigChunks
        /\ audio_callback(c)
        /\ UNCHANGED stream

SpecConfig == InitConfig /\ [][CaptureConfig]_vars

-----------------------------------------------------------------------------
(* Specification of speech output, on every host *)

InitTTS ==
    /\ config = LewisConfig
    /\ Constructed
    /\ probe = NoProbe
    /\ tts_env \in TtsHosts
    /\ stt_env = NoStt
    /\ audio_env = NoCapture

Request == \E text \in TtsTexts, voice \in TtsVoices : tts_request(text, voice)

Synthesize ==
    \E i \in 1..Len(tts_calls) :
        \/ tts_espeak(i)
        \/ tts_espeak_done(i)
        \/ tts_pyttsx3(i)
        \/ tts_festival(i)
        \/ tts_festival_done(i)
        \/ tts_log(i)

Speak == \E t \in 1..Len(speak_threads) : speak_begin(t) \/ speak_end(t)

NextTTS == Request \/ Synthesize \/ Speak

SpecTTS == InitTTS /\ [][NextTTS]_vars

-----------------------------------------------------------------------------
(* Specification of the assistant: hosts with and without a capture         *)
(* backend, commands injected through _on_voice_command, speech output.     *)

\* the hosts on which no capture backend can be initialized, and one on
\* which PyAudio can
AssistantHosts ==
    {h \in AudioHosts : h.pyaudio # "ok" /\ h.sounddevice # "ok"
                           /\ h.alsa # "ok"}
        \cup {[pyaudio |-> "ok", sounddevice |-> "missing",
               alsa |-> "missing"]}

\* the texts injected: a greeting for AICore, a question, a control
\* command, a system command, the wake word alone, and no text
CommandTexts ==
    {<<"oi">>, <<"lewis", "que", "horas", "sao">>, <<"liga", "luz">>,
     <<"reinicia", "o", "sistema">>, <<"lewis">>, <<>>}

InitAssistant ==
    /\ config = LewisConfig
    /\ Constructed
    /\ probe = NoProbe
    /\ tts_env \in TtsHosts
    /\ stt_env = NoStt
    /\ audio_env \in AssistantHosts

DeliverOne ==
    \E c \in RingChunks :
        /\ stream = "active"
        /\ Len(delivered) < 1
        /\ audio_callback(c)
        /\ stream' \in AfterCallback

Inject == \E text \in CommandTexts : on_voice_command(text)

ProcessCommand ==
    \E k \in 1..Len(commands) :
        process_command_async_task(k) \/ command_done(k)

NextAssistant ==
    \/ initialize
    \/ continuous_capture
    \/ DeliverOne
    \/ Inject
    \/ ProcessCommand
    \/ Synthesize
    \/ Speak

SpecAssistant == InitAssistant /\ [][NextAssistant]_vars

-----------------------------------------------------------------------------
(* Specification of _is_silence as a function: every chunk of up to         *)
(* MaxVadLen samples over VadSamples, with the default threshold and with   *)
(* the vad_threshold of LewisConfig.                                        *)

VadSamples == {Int16Min, -200, 0, 199, 200, 300}

VadChunks ==
    {[samples |-> s, band |-> 0, odd |-> FALSE] :
        s \in UNION {[1..n -> VadSamples] : n \in 0..MaxVadLen}}

VadThresholds == {SilenceThreshold, LewisConfig.vad_threshold}

InitVAD ==
    /\ config = BareConfig
    /\ Constructed
    /\ tts_env = NoBackend
    /\ stt_env = NoStt
    /\ audio_env = NoCapture
    /\ probe \in {[chunk |-> c, threshold |-> t, result |-> "unset"] :
                     c \in VadChunks, t \in VadThresholds}

SpecVAD == InitVAD /\ [][is_silence_call]_vars

-----------------------------------------------------------------------------
(* Specification of shutdown: the capture backends' specification with the  *)
(* recognition threads of the commands emitted running alongside.           *)

NextShutdown == NextBackend \/ Recognize

SpecShutdown == InitBackend /\ [][NextShutdown]_vars

-----------------------------------------------------------------------------
(* Specification of _process_complete_command as a function of the          *)
(* segmenter's fields: a command in progress, the silence accumulated, and  *)
(* every buffer of up to MaxEmitChunks chunks, the empty one and the        *)
(* missing attribute included.                                              *)

EmitBuffers ==
    {Flatten(cs) : cs \in UNION {[1..n -> Chunks] : n \in 0..MaxEmitChunks}}

InitEmit ==
    /\ config = LewisConfig
    /\ audio_buffer = <<>>
    /\ wake_word_detected = FALSE
    /\ command_in_progress = TRUE
    /\ command_audio \in {<<>>} \cup {<<b>> : b \in EmitBuffers}
    /\ silence_counter \in {k * ByteLen(QuietChunk) : k \in 0..MaxEmitChunks}
    /\ ConstructedRest
    /\ probe = NoProbe
    /\ tts_env = NoBackend
    /\ stt_env = NoStt
    /\ audio_env = NoCapture

SpecEmit == InitEmit /\ [][process_complete_command_call]_vars

-----------------------------------------------------------------------------
(* Specification of the recognition threads: every host, the callback       *)
(* emitting commands while the threads of earlier commands run              *)
(* speech_to_text statement by statement.                                   *)

InitStt ==
    /\ config = LewisConfig
    /\ Constructed
    /\ probe = NoProbe
    /\ tts_env = NoBackend
    /\ audio_env = NoCapture
    /\ stt_env \in SttHosts

CaptureStt ==
    \E c \in RingChunks :
        /\ Len(delivered) < MaxSttChunks
        /\ audio_callback(c)
        /\ UNCHANGED stream

NextStt ==
    \/ CaptureStt
    \/ Register
    \/ \E i \in 1..Len(threads) :
          \/ stt_import_vosk(i)
          \/ stt_load_model(i)
          \/ stt_load_recognizer(i)
          \/ stt_accept(i)
          \/ stt_result(i)
          \/ stt_fallback(i)

SpecStt == InitStt /\ [][NextStt]_vars

-----------------------------------------------------------------------------
(* Specification of _analyze_for_wake_word as a function: every chunk of up *)
(* to MaxVadLen samples over GateSamples, with a band magnitude below, at   *)
(* and above the voice-band threshold.                                      *)

GateSamples == {Int16Min, -500, 0, 499, 500}

GateBands == {0, VoiceBandThreshold, VoiceBandThreshold + 1}

GateChunks ==
    {[samples |-> s, band |-> b, odd |-> FALSE] :
        s \in UNION {[1..n -> GateSamples] : n \in 0..MaxVadLen},
        b \in GateBands}

InitGate ==
    /\ config = BareConfig
    /\ Constructed
    /\ tts_env = NoBackend
    /\ stt_env = NoStt
    /\ audio_env = NoCapture
    /\ probe \in {[chunk |-> c, threshold |-> EnergyThreshold,
                    result |-> "unset"] : c \in GateChunks}

SpecGate == InitGate /\ [][analyze_for_wake_word_call]_vars

-----------------------------------------------------------------------------
(* Vocabulary of the properties *)

\* the absolute value of a sample, as a number
Magnitude(x) == IF x < 0 THEN -x ELSE x

RECURSIVE SumMagnitude(_)
SumMagnitude(s) ==
    IF s = <<>> THEN 0 ELSE Magnitude(Head(s)) + SumMagnitude(Tail(s))

\* the utterances that have started and not ended
Playing ==
    {k \in 1..Len(playback) :
        /\ playback[k].ev = "start"
        /\ ~\E m \in (k + 1)..Len(playback) :
              /\ playback[m].ev = "end"
              /\ playback[m].call = playback[k].call
              /\ playback[m].backend = playback[k].backend}

\* the start events, in the order they happened
Starts == SelectSeq(playback, LAMBDA e : e.ev = "start")

\* the backends the host provides
Available == {b \in {"espeak", "pyttsx3", "festival"} : tts_env[b]}

\* the last n elements of a sequence (all of it when it is shorter)
LastN(s, n) ==
    IF Len(s) <= n THEN s ELSE SubSeq(s, Len(s) - n + 1, Len(s))

RECURSIVE TrailingSilenceBytes(_)
\* the bytes of the longest run of silence chunks that ends the stream
TrailingSilenceBytes(chunks) ==
    IF chunks = <<>> \/ ~is_silence(chunks[Len(chunks)], SilenceThreshold)
    THEN 0
    ELSE ByteLen(chunks[Len(chunks)])
            + TrailingSilenceBytes(SubSeq(chunks, 1, Len(chunks) - 1))

\* `bytes` of audio last at least `ms` milliseconds at the stream's rate
LastsAtLeast(bytes, ms) == bytes * 1000 >= ms * SAMPLE_RATE * 2

\* this step is one invocation of the capture callback
CallbackStep == Len(delivered') = Len(delivered) + 1

\* the chunk the callback of this step was given
InData == delivered'[Len(delivered')]

LastDelivered == delivered[Len(delivered)]

IsWake(c) == analyze_for_wake_word(c, energy_threshold)

IsSpeech(c) == ~is_silence(c, SilenceThreshold)

\* the length in bytes of a sequence of chunks
Bytes(chunks) == 2 * Len(Flatten(chunks))

\* the silence duration the configuration asks for (1.5 s when absent)
ConfiguredSilenceDuration == CfgGet(config, "silence_duration", 1500)

\* the longer of the configured duration and the one the segmenter holds
LongestSilenceDuration ==
    IF ConfiguredSilenceDuration > silence_duration
    THEN ConfiguredSilenceDuration
    ELSE silence_duration

\* d[from..] being silence: the first index at which it has lasted ms
FirstReach(d, from, ms) ==
    CHOOSE k \in from..Len(d) :
        /\ LastsAtLeast(Bytes(SubSeq(d, from, k)), ms)
        /\ \A j \in from..(k - 1) : ~LastsAtLeast(Bytes(SubSeq(d, from, j)), ms)

\* d is `lead` speech chunks, the first one wake-word positive, followed by
\* silence chunks only, which last at least ms
SpeechThenSilence(d, lead, ms) ==
    /\ Len(d) > lead
    /\ IsWake(d[1])
    /\ \A i \in 1..lead : IsSpeech(d[i])
    /\ \A i \in (lead + 1)..Len(d) : is_silence(d[i], SilenceThreshold)
    /\ LastsAtLeast(Bytes(SubSeq(d, lead + 1, Len(d))), ms)

-----------------------------------------------------------------------------
(* C1: at most one command buffer is open at a time.  A chunk delivered     *)
(* while a command is in progress (a wake-word positive one included) only  *)
(* extends the open buffer: the buffer is never reallocated and none of its *)
(* bytes is lost; if the chunk ends the command, all the bytes collected go *)
(* to the one recognition thread started.                                   *)
C1_SingleOpenBuffer ==
    [][ (CallbackStep /\ command_in_progress) =>
          /\ Len(command_audio) = 1
          /\ LET buf == command_audio[1] \o InData.samples
             IN  \/ /\ command_in_progress'
                    /\ command_audio' = <<buf>>
                    /\ threads' = threads
                 \/ /\ ~command_in_progress'
                    /\ command_audio' = <<>>
                    /\ threads' = IF buf # <<>>
                                  THEN Append(threads, NewThread(buf))
                                  ELSE threads ]_vars

\* a wake-word positive chunk has arrived during a capture that goes on
C1_Witness ==
    /\ command_in_progress
    /\ Len(delivered) >= 2
    /\ analyze_for_wake_word(LastDelivered, energy_threshold)
    /\ Len(command_audio[1]) > Len(LastDelivered.samples)

C6_SilenceAccumulator ==
    /\ [](~command_in_progress => silence_counter = 0)
    /\ [][ /\ (CallbackStep /\ ~is_silence(InData, SilenceThreshold))
                => silence_counter' = 0
           /\ silence_counter' > silence_counter
                => /\ CallbackStep
                   /\ command_in_progress
                   /\ is_silence(InData, SilenceThreshold)
           /\ silence_counter' # silence_counter => CallbackStep ]_vars

\* silence has been accumulated during a capture
C6_Witness ==
    /\ command_in_progress
    /\ silence_counter > 0

(* C2, as claimed: 3 speech chunks (the first arming) then qualifying       *)
(* silence give exactly one command buffer, holding exactly the bytes of    *)
(* the 3 speech chunks, and the segmenter is Idle again.                    *)
C2_OnlySpeechBytes ==
    SpeechThenSilence(delivered, 3, LongestSilenceDuration) =>
        /\ Len(threads) = 1
        /\ threads[1].audio = Flatten(SubSeq(delivered, 1, 3))
        /\ ~command_in_progress

(* C2, amended: 3 speech chunks (the first arming) then qualifying silence  *)
(* give exactly one command buffer; it holds the bytes of the 3 speech      *)
(* chunks followed by those of the silence chunks up to and including the   *)
(* one that completes the command; the segmenter is Idle again.             *)
C2_SpeechAndSilenceBytes ==
    SpeechThenSilence(delivered, 3, silence_duration) =>
        /\ Len(threads) = 1
        /\ threads[1].audio =
              Flatten(SubSeq(delivered, 1,
                             FirstReach(delivered, 4, silence_duration)))
        /\ ~command_in_progress
        /\ command_audio = <<>>

\* the stream of the claim has been delivered, with silence going on after
\* the command was emitted
C2_Witness ==
    /\ SpeechThenSilence(delivered, 3, silence_duration)
    /\ Len(delivered) > FirstReach(delivered, 4, silence_duration)
    /\ Len(threads) = 1

(* C3, as claimed: when a recognition ends while a handler is registered,   *)
(* the handler is invoked exactly once with the text if the text is         *)
(* non-blank, and not at all if there is no text or only blanks.            *)
C3_HandlerInvokedOnce ==
    [][ \A i \in 1..Len(threads) :
          (threads[i].pc = "stt" /\ threads'[i].pc = "done"
              /\ callback # "None") =>
             callback_calls' =
                IF Recognized(threads'[i].text)
                THEN Append(callback_calls, threads'[i].text[1])
                ELSE callback_calls ]_vars

(* C5, as claimed: the end-of-command silence is the configured             *)
(* silence_duration (1.5 s when absent): a command ends only on a chunk at  *)
(* which the trailing silence has lasted that long.                         *)
C5_ConfiguredSilenceDuration ==
    [][ (command_in_progress /\ ~command_in_progress') =>
          LastsAtLeast(TrailingSilenceBytes(delivered'),
                       ConfiguredSilenceDuration) ]_vars

(* C7, as claimed: a capture armed by a wake-word chunk and followed only   *)
(* by silence until the silence duration is reached starts no recognition.  *)
C7_SilentCaptureDropped ==
    SpeechThenSilence(delivered, 1, LongestSilenceDuration) =>
        threads = <<>>

(* C7, amended: such a capture is dispatched, not dropped.  Its buffer      *)
(* holds the wake-word chunk followed by the silence chunks, so it is not   *)
(* empty, and exactly one recognition thread is started for it.             *)
C7_SilentCaptureDispatched ==
    SpeechThenSilence(delivered, 1, silence_duration) =>
        /\ Len(threads) = 1
        /\ threads[1].audio =
              Flatten(SubSeq(delivered, 1,
                             FirstReach(delivered, 2, silence_duration)))
        /\ threads[1].audio # <<>>
        /\ ~command_in_progress

\* a wake-word chunk and nothing but qualifying silence have been delivered
C7_Witness ==
    /\ SpeechThenSilence(delivered, 1, silence_duration)
    /\ Len(delivered) = FirstReach(delivered, 2, silence_duration)

(* C8, as claimed: for a chunk of 16-bit samples, _is_silence returns true  *)
(* iff the mean absolute amplitude of the samples is strictly below the     *)
(* threshold; a mean exactly at the threshold is speech.                    *)
C8_SilenceIffMeanBelowThreshold ==
    (probe.result # "unset" /\ Len(probe.chunk.samples) > 0) =>
        (probe.result = "silence"
            <=> SumMagnitude(probe.chunk.samples)
                    < probe.threshold * Len(probe.chunk.samples))

(* C9: after n chunks the ring buffer holds exactly the last min(n, 10) of  *)
(* them in arrival order (an insertion at capacity evicts the oldest one    *)
(* only), and no step other than the capture callback changes it.           *)
C9_RingHoldsLastTen ==
    /\ [](audio_buffer = LastN(delivered, 10))
    /\ [][audio_buffer' # audio_buffer => CallbackStep]_vars

\* more than 10 chunks have arrived and the oldest ones are gone
C9_Witness ==
    /\ Len(delivered) = 12
    /\ Len(audio_buffer) = 10
    /\ audio_buffer = SubSeq(delivered, 3, 12)
    /\ audio_buffer # SubSeq(delivered, 1, 10)
    /\ audio_buffer # SubSeq(delivered, 2, 11)

(* C10, as claimed: on a host with one synthesis backend, whichever it is,  *)
(* the utterances of the text_to_speech requests never overlap (at most     *)
(* one is playing at any time) and they start in request order.             *)
C10_SerializedInRequestOrder ==
    Cardinality(Available) = 1 =>
        /\ Cardinality(Playing) <= 1
        /\ \A j, k \in 1..Len(Starts) :
              j < k => Starts[j].call < Starts[k].call

-----------------------------------------------------------------------------
(* Vocabulary of the properties about backends, stages and configurations *)

\* the synthesis backends in priority order
TtsPriority == <<"espeak", "pyttsx3", "festival">>

\* the first available synthesis backend, as a set (empty when none is)
FirstAvailable ==
    {b \in Available :
        \A k \in 1..Len(TtsPriority) :
            TtsPriority[k] = b =>
                \A j \in 1..(k - 1) : TtsPriority[j] \notin Available}

\* the backends that took the text of call i
UsedBy(i) ==
    {playback[k].backend : k \in {m \in 1..Len(playback) :
                                    playback[m].call = i}}
      \cup {"pyttsx3" : t \in {u \in 1..Len(speak_threads) :
                                  speak_threads[u].call = i}}

\* the first capture backend that initializes successfully on the host
FirstUsable(env) ==
    IF env.pyaudio = "ok" THEN "pyaudio"
    ELSE IF env.sounddevice = "ok" THEN "sounddevice"
    ELSE IF env.alsa = "ok" THEN "alsa"
    ELSE "None"

\* a stage of the pipeline for a statement of the callback
StageOf(name) == IF name \in {"vad", "gate"} THEN name ELSE "segmenter"

RECURSIVE Pipeline(_)
\* the pipeline stages a sequence of statements goes through, in order
Pipeline(st) ==
    IF st = <<>> THEN <<>>
    ELSE LET rest == Pipeline(Tail(st))
         IN  IF rest # <<>> /\ Head(rest) = StageOf(Head(st))
             THEN rest
             ELSE <<StageOf(Head(st))>> \o rest

\* how many times a statement occurs in a sequence of statements
Count(st, name) == Cardinality({k \in 1..Len(st) : st[k] = name})

\* a read shorter than the nominal chunk of the configuration
IsShort(c) == ByteLen(c) < 2 * CHUNK_SIZE

ValidConfig(cfg) ==
    /\ CfgGet(cfg, "audio_sample_rate", DefaultSampleRate) > 0
    /\ CfgGet(cfg, "audio_chunk_size", DefaultChunkSize) > 0

-----------------------------------------------------------------------------
(* C13: on a host where no capture backend can be initialized, initialize   *)
(* leaves simulator_mode true and raises nothing, the capture thread ends   *)
(* without an error, no stream is opened, no chunk is delivered and the     *)
(* segmenter stays as constructed; and a command with text injected through *)
(* _on_voice_command is processed in one run of its task: it is classified, *)
(* a response is produced and handed to text_to_speech with voice 'pt',     *)
(* and the task ends once text_to_speech has returned.                      *)
C13_SimulatorModeStillAnswers ==
    /\ []((FirstUsable(audio_env) = "None" /\ simulator_mode # "unset") =>
            /\ simulator_mode = "True"
            /\ audio_interface = "None"
            /\ capture_error = "none"
            /\ stream = "None"
            /\ delivered = <<>>
            /\ audio_buffer = <<>>
            /\ ~command_in_progress
            /\ ~wake_word_detected
            /\ command_audio = <<>>
            /\ silence_counter = 0
            /\ \A k \in 1..Len(commands) :
                  (commands[k].pc = "done" /\ commands[k].text # <<>>) =>
                     /\ commands[k].call \in 1..Len(tts_calls)
                     /\ tts_calls[commands[k].call].pc = "returned"
                     /\ last_command # <<>>)
    /\ [][ \A k \in 1..Len(commands) :
             (/\ FirstUsable(audio_env) = "None"
              /\ commands[k].pc = "created"
              /\ commands'[k].pc # "created"
              /\ commands[k].text # <<>>) =>
                /\ commands'[k].pc = "speaking"
                /\ commands'[k].result.voice_response # <<>>
                /\ tts_calls' = Append(tts_calls,
                      [text |-> commands'[k].result.voice_response[1],
                       voice |-> "pt", pc |-> "pending", logged |-> FALSE])
                /\ commands'[k].call = Len(tts_calls') ]_vars

\* with no capture backend and the capture thread gone, an injected command
\* has been answered through text_to_speech
C13_Witness ==
    /\ FirstUsable(audio_env) = "None"
    /\ capture_thread = "returned"
    /\ \E k \in 1..Len(commands) :
          /\ commands[k].pc = "done"
          /\ commands[k].text # <<>>
          /\ tts_calls[commands[k].call].pc = "returned"

(* C11, as claimed: a text_to_speech call that has returned was synthesized *)
(* by exactly one backend, the first available one in the order espeak-ng,  *)
(* pyttsx3, festival, and was not logged as unspoken; with no backend it    *)
(* was synthesized by none.                                                 *)
C11_ExactlyOneBackend ==
    \A i \in 1..Len(tts_calls) :
        tts_calls[i].pc = "returned" =>
            /\ UsedBy(i) = FirstAvailable
            /\ Available # {} => ~tts_calls[i].logged

(* C12: on a host with no synthesis backend a text_to_speech call goes      *)
(* through the three attempts without synthesizing anything (no utterance,  *)
(* no speak thread, no engine), never ends in an exception, and has logged  *)
(* the text exactly when it has returned.                                   *)
C12_NoBackendLogsAndReturns ==
    tts_env = NoBackend =>
        /\ playback = <<>>
        /\ speak_threads = <<>>
        /\ ~tts_engine
        /\ \A i \in 1..Len(tts_calls) :
              /\ tts_calls[i].pc \in
                    {"pending", "pyttsx3", "festival", "log", "returned"}
              /\ tts_calls[i].logged <=> tts_calls[i].pc = "returned"

\* two requests were made on a host with no backend, and both have returned
C12_Witness ==
    /\ tts_env = NoBackend
    /\ Len(tts_calls) = 2
    /\ \A i \in 1..2 : tts_calls[i].pc = "returned" /\ tts_calls[i].logged

(* C14, as claimed: once initialize has run, the backend in use is the      *)
(* first of pyaudio, sounddevice, alsa that initializes on the host, and    *)
(* once the capture thread is past its set-up without a device error, a     *)
(* stream has been opened on the backend.                                   *)
C14_FirstUsableBackendStreams ==
    simulator_mode # "unset" =>
        /\ audio_interface = FirstUsable(audio_env)
        /\ (/\ audio_interface # "None"
            /\ capture_thread \in {"streaming", "returned"}
            /\ capture_error # "OSError") => stream # "None"

(* C15, as claimed: while the assistant is running with a capture backend   *)
(* selected, the capture thread has not terminated.                         *)
C15_CaptureThreadNeverTerminates ==
    (running /\ simulator_mode = "False") => capture_thread # "returned"

(* C16, as claimed: cleanup() never raises; once it has returned there is   *)
(* no open stream, a PyAudio instance has been terminated, and no further   *)
(* chunk reaches the callback.                                              *)
C16_CleanupReleasesEverything ==
    /\ [](/\ cleanup_outcome \in {"none", "returned"}
          /\ cleanup_outcome = "returned" =>
                /\ stream \in {"None", "closed"}
                /\ audio_interface = "pyaudio" => pa_terminated)
    /\ [][cleanup_outcome = "returned" => delivered' = delivered]_vars

(* C17: the capture callback never waits for a recognition.  A callback     *)
(* step leaves every recognition thread as it was and a thread it starts    *)
(* has not run yet when the callback returns; a step of a recognition       *)
(* thread leaves the segmenter untouched; and the callback can be invoked   *)
(* whatever the recognition threads are doing.                              *)
C17_CaptureNotBlockedByRecognition ==
    /\ [](Len(delivered) < MaxChunks => ENABLED Capture)
    /\ [][ /\ CallbackStep =>
                /\ Len(threads') >= Len(threads)
                /\ SubSeq(threads', 1, Len(threads)) = threads
                /\ \A i \in (Len(threads) + 1)..Len(threads') :
                      threads'[i].pc = "stt"
           /\ (~CallbackStep /\ threads' # threads) =>
                UNCHANGED <<segVars, delivered>> ]_vars

\* two recognitions are in flight and a third command is being captured
C17_Witness ==
    /\ Len(threads) = 2
    /\ \A i \in 1..2 : threads[i].pc = "stt"
    /\ command_in_progress
    /\ Len(command_audio[1]) > Len(WakeChunk.samples)

C19_ShortChunkTolerated ==
    (delivered # <<>> /\ IsShort(LastDelivered)) =>
        callback_outcome = "NameError"

(* C20, as claimed: an AudioInterface exists only for a valid               *)
(* configuration, and no invalid value makes the processing of a chunk      *)
(* fail.                                                                    *)
C20_InvalidConfigFailsFast ==
    /\ ValidConfig(config)
    /\ callback_outcome # "ZeroDivisionError"

(* C21, as claimed: for a chunk of 16-bit samples the wake-word gate        *)
(* signals a detection iff the mean absolute amplitude of the samples is at *)
(* least the energy threshold (500) and the band magnitude exceeds 1000; a  *)
(* chunk whose mean absolute amplitude is below the energy threshold leaves *)
(* wake_word_detected unset.                                                *)
C21_DetectsIffLoudAndVoiced ==
    (probe.result # "unset" /\ Len(probe.chunk.samples) > 0) =>
        LET loud == SumMagnitude(probe.chunk.samples)
                        >= EnergyThreshold * Len(probe.chunk.samples)
        IN  /\ probe.result = "detected"
                   <=> (loud /\ probe.chunk.band > VoiceBandThreshold)
            /\ ~loud => ~wake_word_detected

(* C22: the command buffer exists exactly while a command is in progress.   *)
(* A capture ends in a callback step that starts exactly one recognition    *)
(* thread on the bytes collected (those of the current chunk included) and  *)
(* removes the buffer in the same step; recognition threads start in no     *)
(* other step, and the bytes a thread was given never change afterwards,    *)
(* whatever chunks arrive.                                                  *)
C22_BufferHandedOverOnce ==
    /\ [](command_audio # <<>> <=> command_in_progress)
    /\ [][ /\ (command_in_progress /\ ~command_in_progress') =>
                /\ CallbackStep
                /\ Len(threads') = Len(threads) + 1
                /\ threads'[Len(threads')] =
                      NewThread(command_audio[1] \o Payload(InData))
                /\ command_audio' = <<>>
           /\ Len(threads') # Len(threads) =>
                (command_in_progress /\ ~command_in_progress')
           /\ Len(threads') >= Len(threads)
           /\ \A i \in 1..Len(threads) :
                 threads'[i].audio = threads[i].audio ]_vars

\* a buffer was handed over and the next capture is collecting other bytes
C22_Witness ==
    /\ Len(threads) = 1
    /\ command_in_progress
    /\ Len(command_audio[1]) > Len(WakeChunk.samples)
    /\ command_audio[1] # SubSeq(threads[1].audio, 1, Len(command_audio[1]))

(* C23: an exception raised inside speech_to_text, whichever backend raises *)
(* it, ends the recognition thread normally with no text: the thread is     *)
(* done, nothing escaped, and the step in which it happens invokes no       *)
(* handler and leaves every field of the segmenter as it was.               *)
C23_RecognitionFailureDropped ==
    /\ [](\A i \in 1..Len(threads) :
            /\ threads[i].pc # "crashed"
            /\ threads[i].error # "none" =>
                  (threads[i].pc = "done" /\ threads[i].text = <<>>))
    /\ [][ \A i \in 1..Len(threads) :
             (threads[i].error = "none" /\ threads'[i].error # "none") =>
                /\ callback_calls' = callback_calls
                /\ UNCHANGED segVars
                /\ Len(threads') = Len(threads) ]_vars

\* a recognition failed while a handler is registered and the next command
\* is being captured
C23_Witness ==
    /\ callback # "None"
    /\ command_in_progress
    /\ \E i \in 1..Len(threads) :
          threads[i].pc = "done" /\ threads[i].error = "Exception"

(* C29, as claimed: the Vosk model is created at most once, and the text a  *)
(* recognition obtains from the shared recognizer is recognized from the    *)
(* audio of its own command only.                                           *)
C29_CreatedOnceAndNotInterleaved ==
    /\ models_created <= 1
    /\ \A i \in 1..Len(threads) :
          (threads[i].pc = "done" /\ threads[i].source # <<>>) =>
              threads[i].source = <<i>>

(* C24: a wake-word positive chunk in Idle starts the capture in that same  *)
(* callback, with a buffer holding that chunk only and a zero silence       *)
(* accumulator; any other chunk in Idle starts nothing.  While capturing,   *)
(* every chunk is appended at the end of the buffer, the one that ends the  *)
(* command included.  Hence the open buffer, and the bytes every            *)
(* recognition thread was given, are a run of consecutive chunks of the     *)
(* stream that starts with a wake-word positive chunk.                      *)
C24_BufferIsChunksSinceWake ==
    /\ [](command_in_progress =>
            \E a \in 1..Len(delivered) :
                /\ IsWake(delivered[a])
                /\ command_audio =
                      <<Flatten(SubSeq(delivered, a, Len(delivered)))>>)
    /\ [](\A k \in 1..Len(threads) :
            \E a \in 1..Len(delivered) : \E e \in a..Len(delivered) :
                /\ IsWake(delivered[a])
                /\ threads[k].audio = Flatten(SubSeq(delivered, a, e)))
    /\ [][ CallbackStep =>
             /\ (~command_in_progress /\ IsWake(InData)) =>
                   /\ command_in_progress'
                   /\ command_audio' = <<Payload(InData)>>
                   /\ silence_counter' = 0
             /\ (~command_in_progress /\ ~IsWake(InData)) =>
                   /\ ~command_in_progress'
                   /\ command_audio' = <<>>
             /\ (command_in_progress /\ command_in_progress') =>
                   command_audio' = <<command_audio[1] \o Payload(InData)>>
             /\ (command_in_progress /\ ~command_in_progress') =>
                   threads'[Len(threads')].audio =
                       command_audio[1] \o Payload(InData) ]_vars

\* a command was emitted whose capture began at the third chunk, after a
\* quiet and a voiced chunk that are not part of it, and went through
\* speech and silence
C24_Witness ==
    /\ Len(threads) = 1
    /\ ~command_in_progress
    /\ Len(delivered) = 7
    /\ ~IsWake(delivered[1]) /\ ~IsWake(delivered[2])
    /\ delivered[1] # delivered[2]
    /\ IsWake(delivered[3])
    /\ IsSpeech(delivered[5])
    /\ threads[1].audio = Flatten(SubSeq(delivered, 3, 7))

(* C25, as claimed: every invocation of _audio_callback on a well-formed    *)
(* chunk returns the (in_data, paContinue) result to the backend.           *)
C25_CallbackReturnsContinue ==
    delivered # <<>> => callback_outcome = "paContinue"

(* C26, as claimed: once cleanup() has ended, every recognition thread that *)
(* was started has finished.                                                *)
C26_NoDanglingRecognition ==
    cleanup_outcome # "none" =>
        \A i \in 1..Len(threads) : threads[i].pc = "done"

(* C27: _process_complete_command on a buffer of zero bytes (or with no     *)
(* buffer at all) starts no recognition thread, and leaves the segmenter    *)
(* Idle, the silence accumulator at zero and the buffer released.           *)
C27_EmptyBufferDropped ==
    [][ (stages = <<>> /\ stages' = <<"complete">>
            /\ command_audio \in {<<>>, << <<>> >>}) =>
          /\ threads' = threads
          /\ ~command_in_progress'
          /\ silence_counter' = 0
          /\ command_audio' = <<>> ]_vars

\* _process_complete_command has run on an empty buffer and dispatched
\* nothing
C27_Witness ==
    /\ stages = <<"complete">>
    /\ threads = <<>>
    /\ ~command_in_progress
    /\ command_audio = <<>>

(* C28: wake_word_detected is false at the end of every callback, and a     *)
(* capture starts only in the callback of a chunk that is itself wake-word  *)
(* positive: no detection is carried over to a later chunk.                 *)
C28_DetectionNeverPending ==
    /\ [](~wake_word_detected)
    /\ [][ (~command_in_progress /\ command_in_progress') =>
             (CallbackStep /\ IsWake(InData)) ]_vars

\* a command during whose capture a wake-word positive chunk arrived has
\* completed, and the chunk after it, not wake-word positive, left the
\* segmenter Idle
C28_Witness ==
    /\ Len(threads) = 1
    /\ ~command_in_progress
    /\ Len(delivered) >= 5
    /\ IsWake(delivered[2])
    /\ threads[1].audio = Flatten(SubSeq(delivered, 1, Len(delivered) - 1))
    /\ ~IsWake(LastDelivered)

\* the chunks the stream still has would, if all silent, last silence_duration
RoomForSilence ==
    LastsAtLeast((MaxLiveChunks - Len(delivered)) * ByteLen(QuietChunk),
                 silence_duration)

\* a chunk classified as speech has arrived after the n-th
SpeechSince(n) ==
    \E j \in 1..MaxLiveChunks :
        /\ j > n
        /\ j <= Len(delivered)
        /\ IsSpeech(delivered[j])

\* a command is in progress after n chunks, and the stream has room
CapturingAt(n) ==
    /\ command_in_progress
    /\ Len(delivered) = n
    /\ RoomForSilence

(* C30: from any point of a capture at which the stream still has enough    *)
(* chunks for the silence duration, either the command is eventually        *)
(* emitted and the segmenter Idle again, or a chunk classified as speech    *)
(* arrives later: on chunks that are all silence the segmenter does not     *)
(* stay in CapturingCommand.                                                *)
C30_SilenceEventuallyEmits ==
    \A n \in 0..MaxLiveChunks :
        CapturingAt(n) ~> (~command_in_progress \/ SpeechSince(n))

\* a capture that went through speech was ended by the silence after it,
\* with no chunk of the stream to spare
C30_Witness ==
    /\ Len(delivered) = MaxLiveChunks
    /\ Len(threads) = 1
    /\ ~command_in_progress
    /\ is_silence(LastDelivered, SilenceThreshold)
    /\ \E a \in 1..(MaxLiveChunks - 3) :
          /\ \A j \in 1..(a - 1) : ~IsWake(delivered[j])
          /\ IsWake(delivered[a])
          /\ \A j \in (a + 1)..(MaxLiveChunks - 2) : IsSpeech(delivered[j])

-----------------------------------------------------------------------------
(* Actions requested by a result *)

\* the action a result asks for: its action_type if action_needed
RequestedAction(result) ==
    IF result.action_needed THEN <<result.action_type>> ELSE <<>>

RECURSIVE RequestedActions(_)
\* the actions asked for by the commands processed so far, in order
RequestedActions(k) ==
    IF k = 0 THEN <<>>
    ELSE RequestedActions(k - 1) \o
            (IF commands[k].pc \in {"speaking", "done"}
             THEN RequestedAction(commands[k].result) ELSE <<>>)

\* C31: the actions run by execute_action are the actions the results of the
\* commands processed so far asked for: one for each result with
\* action_needed, none for a result that asks for no action.
C31_RequestedActionIsRun == actions_run = RequestedActions(Len(commands))

-----------------------------------------------------------------------------
(* Specification of AICore.process_command called on its own: an AICore     *)
(* that has answered a number of different questions is asked a new         *)
(* question, a text it was asked before, or a greeting.                     *)

\* the n-th question: "por que <n>"
Question(n) == <<"por", "que", ToString(n)>>

\* AICore as __init__ leaves it, with no call recorded
NewAICore == [cache |-> {}, context |-> <<>>, calls |-> <<>>]

\* process_command(Question(k)) on the AICore s (a question has one response)
AnswerQuestion(s, k) ==
    LET o == CHOOSE o \in process_command(Question(k), s.cache, s.context) :
                 TRUE
    IN  [cache |-> o.cache, context |-> o.context,
         calls |-> s.calls \o o.calls]

RECURSIVE AfterQuestionsFrom(_, _, _)
\* the AICore s, which has answered the questions before a, after the
\* questions a to b.  The range is halved to keep the evaluation shallow,
\* and the test on t has the first half evaluated before the second is.
AfterQuestionsFrom(s, a, b) ==
    IF a > b THEN s
    ELSE IF a = b THEN AnswerQuestion(s, a)
    ELSE LET m == (a + b) \div 2
             t == AfterQuestionsFrom(s, a, m)
         IN  IF Len(t.calls) = m THEN AfterQuestionsFrom(t, m + 1, b) ELSE t

\* AICore after process_command(Question(1)), ..., process_command(
\* Question(n)) on a new object
AfterQuestions(n) == AfterQuestionsFrom(NewAICore, 1, n)

\* how many questions have been answered when a behaviour starts: none,
\* and one less than, or as many as, the context and the cache hold
WarmUps ==
    {0, ContextCapacity - 1, ContextCapacity, CacheCapacity - 1,
     CacheCapacity}

InitAI ==
    /\ config = LewisConfig
    /\ ConstructedSegmenter
    /\ ConstructedOthers
    /\ probe = NoProbe
    /\ tts_env = NoBackend
    /\ stt_env = NoStt
    /\ audio_env = NoCapture
    /\ \E n \in WarmUps :
          /\ response_cache = AfterQuestions(n).cache
          /\ context = AfterQuestions(n).context
          /\ ai_calls = AfterQuestions(n).calls

\* AICore.process_command(text), called directly
ai_process_command(text) ==
    /\ \E n \in WarmUps :
          n <= Len(ai_calls) /\ Len(ai_calls) < n + MaxAICalls
    /\ \E o \in process_command(text, response_cache, context) :
          /\ response_cache' = o.cache
          /\ context' = o.context
          /\ ai_calls' = ai_calls \o o.calls
    /\ UNCHANGED <<segVars, cfgVars, recVars, delivered, callback_outcome,
                   probe, ttsVars, stages, hwVars, stream, commands,
                   last_command, actions_run, sttVars>>

\* a question not asked before
AskNew == ai_process_command(Question(Len(ai_calls) + 1))

\* the text of the first call, or of the latest one, once more
AskAgain ==
    \E i \in {1, Len(ai_calls)} :
        /\ ai_calls # <<>>
        /\ ai_process_command(ai_calls[i].text)

\* a greeting, which has several responses
AskGreeting == ai_process_command(<<"oi">>)

NextAI == AskNew \/ AskAgain \/ AskGreeting

SpecAI == InitAI /\ [][NextAI]_vars

\* the call a step makes, if it makes one
CallMade == Len(ai_calls') = Len(ai_calls) + 1

\* a step that calls process_command with a text the cache holds returns the
\* response stored for that text and leaves the cache and the context alone
HitIsFramed ==
    CallMade =>
        LET c == ai_calls'[Len(ai_calls')]
        IN  (\E e \in response_cache : e.key = c.text) =>
                /\ [key |-> c.text, response |-> c.response] \in response_cache
                /\ response_cache' = response_cache
                /\ context' = context

\* C32: the response cache never holds more than 100 entries, and a call of
\* process_command with a text the cache holds returns the response stored
\* for that exact text and changes neither the cache nor the context.
C32_CacheBoundedAndHitFramed ==
    /\ [](Cardinality(response_cache) <= 100)
    /\ [][HitIsFramed]_vars

\* the cache is full, a call has found it full and was not stored, and the
\* latest call was answered by the cache
C32_Witness ==
    /\ Cardinality(response_cache) = 100
    /\ \E i \in 1..Len(ai_calls) :
          /\ ~ai_calls[i].hit
          /\ ~\E e \in response_cache : e.key = ai_calls[i].text
    /\ ai_calls # <<>>
    /\ ai_calls[Len(ai_calls)].hit
    /\ context # <<>>

\* the calls the cache did not answer, in order
CacheMisses == SelectSeq(ai_calls, LAMBDA c : ~c.hit)

\* the context entry of a call
ContextEntry(c) == [user |-> c.text, ai |-> c.response.voice_response[1]]

\* C33: the conversation context holds at most 10 entries, and they are the
\* entries of the most recent calls the cache did not answer, in the order
\* of the calls.
C33_ContextIsLatestMisses ==
    LET n == Len(CacheMisses)
        k == IF n < 10 THEN n ELSE 10
    IN  /\ Len(context) <= 10
        /\ context = [i \in 1..k |-> ContextEntry(CacheMisses[n - k + i])]

\* more than 10 calls have missed the cache, the latest call among them, and
\* a call in between was answered by the cache
C33_Witness ==
    /\ Len(CacheMisses) > 10
    /\ Len(context) = 10
    /\ ~ai_calls[Len(ai_calls)].hit
    /\ \E i \in 1..Len(ai_calls) : ai_calls[i].hit
    /\ context[1] # ContextEntry(CacheMisses[1])

====
